---- MODULE Spec2Model ----
(***************************************************************************)
(* brainstorm-mcp: the round orchestration and session-continuation engine *)
(* (src/src/debate.ts, src/src/sessions.ts, src/src/client.ts, models.ts,  *)
(* src/src/tools/brainstorm.ts, src/src/tools/brainstorm-respond.ts).      *)
(*                                                                         *)
(* Strings.  An identifier or provider name is a sequence of one-character *)
(* strings, so that indexOf and slice are computed as the code computes    *)
(* them.  A generated text is opaque to the program except for its length  *)
(* and its truthiness: it is a record [tok, len].  An error message is a   *)
(* record [kind, label, arg]: the fixed wording, the model label and the   *)
(* variable part; a raw backend error is its message text alone, which may *)
(* be empty.  An endpoint URL or the name of an environment variable is a   *)
(* sequence of pieces ("https://o", "::", "NONE"), so that the key of the   *)
(* connection pool is the concatenation the code builds.                   *)
(*                                                                         *)
(* Scheduling.  The server is one JavaScript event loop: a handler runs    *)
(* without interruption up to its next await, so one action of the model   *)
(* is one such synchronous stretch, and the backend settling a call is an  *)
(* action of the environment.                                              *)
(***************************************************************************)
EXTENDS Integers, Sequences, FiniteSets, TLC

VARIABLES
    now,          \* Date.now(), in milliseconds since start-up
    providers,    \* models.ts: const providers = new Map<string, ProviderConfig>()
    clientCache,  \* client.ts: const clientCache = new Map<string, OpenAI>()
    heap,         \* the DebateSession objects ever allocated, by id
    store,        \* sessions.ts: const sessions = new Map(); its keys in insertion order
    nextId,       \* the next fresh value of randomUUID()
    tasks,        \* the activations of the tool handlers (async functions)
    journal       \* per session id, what has happened to it (read by the properties only)

vars == <<now, providers, clientCache, heap, store, nextId, tasks, journal>>

-----------------------------------------------------------------------------
(* Bounds of the model *)

MaxTasks == 2        \* tool requests in progress at the same time
MaxSessions == 2     \* sessions created in one run
MaxRounds == 2       \* largest "rounds" argument explored (the tool allows 1..10)
StoreCapacity == 1   \* capacity of the store in the workflow model (MAX_SESSIONS scaled down)
MaxStoreIds == 52    \* sessions created in one run of the store model
MaxStoreKeys == 2    \* how many ids get and delete are called with in the store model

(* Program constants *)

SESSION_TTL_MS == 600000
MAX_CONTEXT_CHARS == 12000
DEFAULT_TIMEOUT_MS == 120000
HostMinChars == 50
MAX_SESSIONS == 50

-----------------------------------------------------------------------------
(* Strings *)

Min(a, b) == IF a <= b THEN a ELSE b
Max(a, b) == IF a >= b THEN a ELSE b

\* fault variant: the position of the last occurrence
lastIndexOf(s, c) ==
    IF \E i \in 1..Len(s) : s[i] = c
    THEN (CHOOSE i \in 1..Len(s) : s[i] = c /\ \A j \in (i + 1)..Len(s) : s[j] # c) - 1
    ELSE -1
\* String.prototype.indexOf (0-based, -1 when absent)
indexOf(s, c) ==
    IF \E i \in 1..Len(s) : s[i] = c
    THEN (CHOOSE i \in 1..Len(s) : s[i] = c /\ \A j \in 1..(i - 1) : s[j] # c) - 1
    ELSE -1

\* String.prototype.slice(from, to), 0-based, to exclusive
slice(s, from, to) == SubSeq(s, from + 1, to)

Colon == ":"
MkId(p, m) == p \o <<Colon>> \o m

\* a generated text: its name and its length in characters
Text(tok, len) == [tok |-> tok, len |-> len]
EmptyText == Text("", 0)

\* an error message; NoError stands for an absent "error" field
Msg(kind, label, arg) == [kind |-> kind, label |-> label, arg |-> arg]
NoError == Msg("none", <<>>, <<>>)
\* message.length = 0: every message the program builds has fixed words in it
IsEmptyMsg(m) == m.kind = "raw" /\ m.arg = <<>>
\* JavaScript truthiness of an optional string
TruthyMsg(m) == m # NoError /\ ~IsEmptyMsg(m)
TruthyText(t) == t.len > 0

RECURSIVE SumSeq(_)
SumSeq(s) == IF s = <<>> THEN 0 ELSE Head(s) + SumSeq(Tail(s))

Range(s) == {s[i] : i \in 1..Len(s)}

-----------------------------------------------------------------------------
(* models.ts: the provider registry and resolveModel *)

ProvO == <<"o">>    \* a provider whose API key variable is set
ProvD == <<"d">>    \* a provider whose API key variable is not set
ProvL == <<"l">>    \* a local provider, apiKeyEnvVar = "NONE"
ProvX == <<"x">>    \* a provider that is not registered at start-up

\* process.env: the variables that are set
Env == {<<"O_API_KEY">>}

ProviderConfig(name, url, keyVar, dflt) ==
    [name |-> name, baseURL |-> url, apiKeyEnvVar |-> keyVar, defaultModel |-> dflt]

\* the registry after loadProviders()
InitProviders ==
    <<ProviderConfig(ProvO, <<"https://o">>, <<"O_API_KEY">>, <<"g">>),
      ProviderConfig(ProvD, <<"https://d">>, <<"D_API_KEY">>, <<"c">>),
      ProviderConfig(ProvL, <<"http://l">>, <<"NONE">>, <<"m">>)>>

\* providers.get(name): the registry is kept as the Map's entries in insertion order
hasProvider(reg, name) == \E i \in 1..Len(reg) : reg[i].name = name
getProvider(reg, name) == reg[CHOOSE i \in 1..Len(reg) : reg[i].name = name]
listProviders(reg) == reg
providerNames(reg) == [i \in 1..Len(reg) |-> reg[i].name]

Resolved(p, m, url, keyVar) ==
    [ok |-> TRUE, provider |-> p, modelId |-> m, baseURL |-> url, apiKeyEnvVar |-> keyVar,
     kind |-> "", available |-> <<>>]
ResolveError(kind, names) ==
    [ok |-> FALSE, provider |-> <<>>, modelId |-> <<>>, baseURL |-> <<>>, apiKeyEnvVar |-> <<>>,
     kind |-> kind, available |-> names]

resolveModel(reg, identifier) ==
    LET colonIdx == indexOf(identifier, Colon)
        providerName == slice(identifier, 0, colonIdx)
        modelId == slice(identifier, colonIdx + 1, Len(identifier))
    IN  IF colonIdx = -1
        THEN ResolveError("InvalidFormat", providerNames(listProviders(reg)))
        ELSE IF modelId = <<>>
        THEN ResolveError("NoModel", <<>>)
        ELSE IF ~hasProvider(reg, providerName)
        THEN ResolveError("UnknownProvider", providerNames(listProviders(reg)))
        ELSE LET provider == getProvider(reg, providerName)
             IN  Resolved(providerName, modelId, provider.baseURL, provider.apiKeyEnvVar)

-----------------------------------------------------------------------------
(* client.ts: getClient *)

\* `${model.baseURL}::${model.apiKeyEnvVar}`
cacheKey(model) == model.baseURL \o <<"::">> \o model.apiKeyEnvVar

\* whether getClient(model) returns a client (otherwise it throws "Missing API
\* key"): the pool has an entry under the key, or the credential is at hand
getClientOk(cache, model) ==
    \/ \E c \in cache : c.key = cacheKey(model)
    \/ model.apiKeyEnvVar = <<"NONE">>
    \/ model.apiKeyEnvVar \in Env

\* the pool after getClient(model).  The pool is the Map's entries: the key, and
\* the endpoint and the credential variable that the OpenAI object of the entry
\* was constructed with
getClientCache(cache, model) ==
    IF (\E c \in cache : c.key = cacheKey(model)) \/ ~getClientOk(cache, model) THEN cache
    ELSE cache \cup {[key |-> cacheKey(model), baseURL |-> model.baseURL,
                      apiKeyEnvVar |-> model.apiKeyEnvVar]}

RECURSIVE poolAfter(_, _)
\* the pool after getClient for each model of a list, in order
poolAfter(cache, models) ==
    IF models = <<>> THEN cache
    ELSE poolAfter(getClientCache(cache, Head(models)), Tail(models))

-----------------------------------------------------------------------------
(* debate.ts: callModel *)

\* String.prototype.includes
includes(s, sub) ==
    \E i \in 0..(Len(s) - Len(sub)) : SubSeq(s, i + 1, i + Len(sub)) = sub

Aborted == <<"a", "b", "o", "r", "t", "e", "d">>

\* what the transport does with one request: it answers with a (possibly empty)
\* content, the AbortController's timer aborts it, or it rejects with its own error
Outcome(t, text, arg) == [t |-> t, text |-> text, arg |-> arg]
Answer(text) == Outcome("content", text, <<>>)
Abort == Outcome("abort", EmptyText, <<>>)
Reject(arg) == Outcome("reject", EmptyText, arg)

\* the promise returned by callModel, with the arguments of the call
Call(label, state, value, reason, sys, user) ==
    [label |-> label, state |-> state, value |-> value, reason |-> reason,
     sys |-> sys, user |-> user]

\* err.message of an error callModel catches
messageIncludesAborted(m) ==
    IF m.kind = "raw" THEN includes(m.arg, Aborted) ELSE includes(m.label, Aborted)

timeoutSeconds == <<"120">>   \* Math.round(timeoutMs / 1000) for DEFAULT_TIMEOUT_MS

\* callModel up to its await: getClient throws inside the async function, which
\* rejects the promise; otherwise the request is in flight
callModelIssue(cache, model, label, sys, user) ==
    IF getClientOk(cache, model)
    THEN Call(label, "pending", EmptyText, NoError, sys, user)
    ELSE Call(label, "rejected", EmptyText,
              Msg("MissingKey", <<>>, model.apiKeyEnvVar), sys, user)

\* fault variant: the abort is rethrown as it is, not as a timeout
callModelSettleRethrows(call, o) ==
    LET thrown ==
            IF o.t = "content" THEN Msg("EmptyResponse", call.label, <<>>)
            ELSE IF o.t = "abort" THEN Msg("AbortError", <<>>, <<>>)
            ELSE Msg("raw", <<>>, o.arg)
    IN  IF o.t = "content" /\ TruthyText(o.text)
        THEN [call EXCEPT !.state = "fulfilled", !.value = o.text]
        ELSE [call EXCEPT !.state = "rejected", !.reason = thrown]
\* callModel after its await, on transport outcome o
callModelSettle(call, o) ==
    LET thrown ==
            IF o.t = "content" THEN Msg("EmptyResponse", call.label, <<>>)
            ELSE IF o.t = "abort" THEN Msg("AbortError", <<>>, <<>>)
            ELSE Msg("raw", <<>>, o.arg)
        caught ==
            IF thrown.kind = "AbortError" \/ messageIncludesAborted(thrown)
            THEN Msg("Timeout", call.label, timeoutSeconds)
            ELSE thrown
    IN  IF o.t = "content" /\ TruthyText(o.text)
        THEN [call EXCEPT !.state = "fulfilled", !.value = o.text]
        ELSE [call EXCEPT !.state = "rejected", !.reason = caught]

settled(call) == call.state # "pending"
\* fault variant: Promise.all in place of Promise.allSettled, rejected as soon as
\* one promise is
awaitAll(calls) ==
    IF \E i \in 1..Len(calls) : calls[i].state = "rejected"
    THEN [threw |-> TRUE, results |-> calls,
          reason |-> calls[CHOOSE i \in 1..Len(calls) : calls[i].state = "rejected"].reason]
    ELSE [threw |-> FALSE, reason |-> NoError, results |-> calls]
\* what "await Promise.allSettled(promises)" gives once every promise has settled:
\* the combined promise is never rejected, so the await never throws
awaitAllSettled(calls) == [threw |-> FALSE, reason |-> NoError, results |-> calls]
\* fault variant: the combined promise resolves with the first call that settles
anySettled(calls) == \E i \in 1..Len(calls) : settled(calls[i])
\* Promise.allSettled(calls) has resolved
allSettled(calls) == \A i \in 1..Len(calls) : settled(calls[i])

-----------------------------------------------------------------------------
(* debate.ts: collectRoundResponses *)

RoundResponse(modelId, round, content, error) ==
    [modelId |-> modelId, round |-> round, content |-> content, error |-> error]

collectOne(result, label, round) ==
    IF result.state = "fulfilled"
    THEN RoundResponse(label, round, result.value, NoError)
    ELSE RoundResponse(label, round, EmptyText, result.reason)

\* fault variant: only the fulfilled results are kept
collectFulfilled(results, labels, round) ==
    LET kept == SelectSeq([idx \in 1..Len(results) |-> [result |-> results[idx], label |-> labels[idx]]],
                          LAMBDA x : x.result.state = "fulfilled")
    IN  [k \in 1..Len(kept) |-> collectOne(kept[k].result, kept[k].label, round)]
\* the responses, one per result; labels[idx] is models[idx].label
collectRoundResponses(results, labels, round) ==
    [idx \in 1..Len(results) |-> collectOne(results[idx], labels[idx], round)]

\* fault variant: the failed set starts empty in every round
collectFailedReset(results, labels, failedSet) ==
    {labels[idx] : idx \in {i \in 1..Len(results) : results[i].state # "fulfilled"}}
\* the failedSet after collectRoundResponses
collectFailed(results, labels, failedSet) ==
    failedSet \cup {labels[idx] : idx \in {i \in 1..Len(results) : results[i].state # "fulfilled"}}

-----------------------------------------------------------------------------
(* debate.ts: buildHistoryContext *)

roundChars(round) == SumSeq([i \in 1..Len(round) |-> round[i].content.len])
totalChars(rounds) == SumSeq([r \in 1..Len(rounds) |-> roundChars(rounds[r])])
totalResponses(rounds) == SumSeq([r \in 1..Len(rounds) |-> Len(rounds[r])])
\* fault variant: a transcript exactly at the budget is truncated too
needsTruncationAtBudget(rounds) == totalChars(rounds) >= MAX_CONTEXT_CHARS
needsTruncation(rounds) == totalChars(rounds) > MAX_CONTEXT_CHARS
\* fault variant: the budget is shared among the successful responses only
maxPerResponseSuccessful(rounds) ==
    MAX_CONTEXT_CHARS \div
        Max(SumSeq([r \in 1..Len(rounds) |->
                Cardinality({i \in 1..Len(rounds[r]) : rounds[r][i].error = NoError})]), 1)
\* only read when needsTruncation (otherwise the code uses Infinity)
maxPerResponse(rounds) == MAX_CONTEXT_CHARS \div Max(totalResponses(rounds), 1)

\* one rendered line: "[id] (FAILED: error)" or "[id]:" and the content, cut to
\* its share and followed by the truncation marker when it is longer
Line(modelId, failed, error, content, truncated) ==
    [modelId |-> modelId, failed |-> failed, error |-> error, content |-> content,
     truncated |-> truncated]

\* fault variant: the content is never cut
renderResponseUncut(resp, cut, maxPer) ==
    IF TruthyMsg(resp.error)
    THEN Line(resp.modelId, TRUE, resp.error, EmptyText, FALSE)
    ELSE Line(resp.modelId, FALSE, NoError, resp.content, FALSE)
renderResponse(resp, cut, maxPer) ==
    IF TruthyMsg(resp.error)
    THEN Line(resp.modelId, TRUE, resp.error, EmptyText, FALSE)
    ELSE IF cut /\ resp.content.len > maxPer
    THEN Line(resp.modelId, FALSE, NoError, Text(resp.content.tok, maxPer), TRUE)
    ELSE Line(resp.modelId, FALSE, NoError, resp.content, FALSE)

\* fault variant: only the external models' responses are rendered
buildHistoryContextExternal(rounds) ==
    [r \in 1..Len(rounds) |->
        [header |-> r,
         lines |-> LET ext == SelectSeq(rounds[r], LAMBDA x : x.modelId # <<"claude", ":", "host">>)
                   IN  [i \in 1..Len(ext) |->
                          renderResponse(ext[i], needsTruncation(rounds),
                                         maxPerResponse(rounds))]]]
\* the text block: the sections in round order, section r headed "--- Round r ---"
buildHistoryContext(rounds) ==
    [r \in 1..Len(rounds) |->
        [header |-> r,
         lines |-> [i \in 1..Len(rounds[r]) |->
                      renderResponse(rounds[r][i], needsTruncation(rounds),
                                     maxPerResponse(rounds))]]]

\* err.message: the fixed words of the program's own messages and their
\* arguments (the pieces of a variable name are "NONE", "::", a nine-letter name
\* or one letter)
msgChars(m) ==
    IF m.kind = "raw" THEN Len(m.arg)
    ELSE IF m.kind = "EmptyResponse" THEN 33 + Len(m.label)
    ELSE IF m.kind = "Timeout" THEN 24 + Len(m.label) + SumSeq([i \in 1..Len(m.arg) |-> 3])
    ELSE IF m.kind = "MissingKey"
         THEN 94 + SumSeq([i \in 1..Len(m.arg) |->
                               IF m.arg[i] = "NONE" THEN 4 ELSE IF m.arg[i] = "::" THEN 2
                               ELSE IF m.arg[i] \in {"O_API_KEY", "D_API_KEY"} THEN 9 ELSE 1])
    ELSE 0
\* the length in characters of the block: the prefix "=== Previous Responses
\* ===\n\n" (28) and sections.join("\n\n"); a section is roundLines.join("\n"),
\* its first line "--- Round r ---" and the others "[id] (FAILED: error)\n" or
\* "[id]:\ncontent\n", the content of a cut response ending with the marker
\* "\n[...truncated for context limits]" (34)
blockChars(block) ==
    LET idChars(modelId) == IF modelId = <<"claude", ":", "host">> THEN 11 ELSE Len(modelId)
        lineChars(line) ==
            IF line.failed THEN idChars(line.modelId) + msgChars(line.error) + 14
            ELSE idChars(line.modelId) + 5 + line.content.len
                     + (IF line.truncated THEN 34 ELSE 0)
        sectionChars(section) ==
            14 + (IF section.header < 10 THEN 1 ELSE 2)
               + SumSeq([i \in 1..Len(section.lines) |-> 1 + lineChars(section.lines[i])])
    IN  28 + SumSeq([r \in 1..Len(block) |-> sectionChars(block[r])])
           + 2 * Max(Len(block) - 1, 0)

-----------------------------------------------------------------------------
(* debate.ts: the messages of a round and of the synthesis *)

NoPrompt == ""     \* systemPrompt undefined
Sys(kind, round, total, custom) ==
    [kind |-> kind, round |-> round, total |-> total, custom |-> custom]
User(kind, topic, history, round) ==
    [kind |-> kind, topic |-> topic, history |-> history, round |-> round]

round1System(systemPrompt) ==
    IF systemPrompt # NoPrompt THEN Sys("custom", 0, 0, systemPrompt)
    ELSE Sys("round1", 0, 0, NoPrompt)
round1User(topic) == User("topic", topic, <<>>, 0)
\* host is TRUE for runExternalRound, whose wording adds "(including the host AI)"
roundSystem(r, total, host) == Sys(IF host THEN "refine+host" ELSE "refine", r, total, NoPrompt)
roundUserMessage(topic, history, r) == User("refine", topic, history, r)
synthesisSystem == Sys("synthesis", 0, 0, NoPrompt)
synthesisUserMessage(topic, fullHistory) == User("synthesize", topic, fullHistory, 0)

FallbackSentence == Text("Synthesis failed", 120)

-----------------------------------------------------------------------------
(* sessions.ts: the session store.  heap[id] is the DebateSession object with
   that id; store is the key order of the Map, which holds references to them. *)

\* fault variant: a session expires on reaching the TTL
expiredAtTTL(session, t) == t - session.createdAt >= SESSION_TTL_MS
expired(session, t) == t - session.createdAt > SESSION_TTL_MS

storeDelete(st, id) == SelectSeq(st, LAMBDA x : x # id)

\* fault variant: the sweep removes a session on reaching the TTL
cleanExpiredAtTTL(st, hp, t) == SelectSeq(st, LAMBDA id : t - hp[id].createdAt < SESSION_TTL_MS)
cleanExpired(st, hp, t) == SelectSeq(st, LAMBDA id : ~expired(hp[id], t))

\* fault variant: the entry of greatest createdAt is taken
newest(st, hp) ==
    st[CHOOSE i \in 1..Len(st) :
          /\ \A j \in 1..Len(st) : hp[st[i]].createdAt >= hp[st[j]].createdAt
          /\ \A j \in (i + 1)..Len(st) : hp[st[j]].createdAt # hp[st[i]].createdAt]
\* [...sessions.entries()].sort(by createdAt)[0]: the sort is stable, so among the
\* sessions of least createdAt it is the first in insertion order
oldest(st, hp) ==
    st[CHOOSE i \in 1..Len(st) :
          /\ \A j \in 1..Len(st) : hp[st[i]].createdAt <= hp[st[j]].createdAt
          /\ \A j \in 1..(i - 1) : hp[st[j]].createdAt # hp[st[i]].createdAt]

\* fault variant: the sweep alone, without the eviction of a full store
makeRoomSweepOnly(st, hp, t, cap) == cleanExpired(st, hp, t)
\* the keys left when createSession is about to insert, for a store of capacity cap
makeRoom(st, hp, t, cap) ==
    LET swept == cleanExpired(st, hp, t)
    IN  IF Len(swept) >= cap /\ swept # <<>>
        THEN storeDelete(swept, oldest(swept, hp))
        ELSE swept

\* fault variant: the creation time is left at zero
newSessionUndated(id, t, topic, modelIdentifiers, totalRounds, synthesizerIdentifier, systemPrompt) ==
    [id |-> id, topic |-> topic, modelIdentifiers |-> modelIdentifiers,
     totalRounds |-> totalRounds, synthesizerIdentifier |-> synthesizerIdentifier,
     systemPrompt |-> systemPrompt, createdAt |-> 0, startTime |-> t,
     currentRound |-> 0, rounds |-> <<>>, failedModels |-> {},
     totalCharsProcessed |-> 0, status |-> "awaiting_host"]
\* the object createSession allocates
newSession(id, t, topic, modelIdentifiers, totalRounds, synthesizerIdentifier, systemPrompt) ==
    [id |-> id, topic |-> topic, modelIdentifiers |-> modelIdentifiers,
     totalRounds |-> totalRounds, synthesizerIdentifier |-> synthesizerIdentifier,
     systemPrompt |-> systemPrompt, createdAt |-> t, startTime |-> t,
     currentRound |-> 0, rounds |-> <<>>, failedModels |-> {},
     totalCharsProcessed |-> 0, status |-> "awaiting_host"]

\* the keys after createSession
createSession(st, hp, t, cap, id) == Append(makeRoom(st, hp, t, cap), id)

inStore(st, id) == \E i \in 1..Len(st) : st[i] = id

\* fault variant: get does not look at the age of the session
getSessionFoundAgeless(st, hp, t, id) == inStore(st, id)
\* getSession(id) returns the session (otherwise undefined)
getSessionFound(st, hp, t, id) == inStore(st, id) /\ ~expired(hp[id], t)
\* fault variant: get sweeps every expired session, as create does
getSessionStoreSweeps(st, hp, t, id) == cleanExpired(st, hp, t)
\* the keys after getSession(id)
getSessionStore(st, hp, t, id) ==
    IF inStore(st, id) /\ expired(hp[id], t) THEN storeDelete(st, id) ELSE st

\* fault variant: the entry is left in the Map
deleteSessionKeeps(st, id) == st
\* fault variant: when the id is absent the first entry of the Map is removed
deleteSessionOrFirst(st, id) == IF inStore(st, id) THEN storeDelete(st, id) ELSE SubSeq(st, 2, Len(st))
deleteSession(st, id) == storeDelete(st, id)

-----------------------------------------------------------------------------
(* The activations of the tool handlers *)

TaskIds == 1..MaxTasks

Reply(type, error, sid, round, responses, rounds, synthesis, modelsFailed) ==
    [type |-> type, error |-> error, sid |-> sid, round |-> round,
     responses |-> responses, rounds |-> rounds, synthesis |-> synthesis,
     modelsFailed |-> modelsFailed]
NoReply == Reply("none", "", 0, 0, <<>>, <<>>, EmptyText, {})
\* isError: true with a fixed text
ErrorReply(kind, sid) == Reply("error", kind, sid, 0, <<>>, <<>>, EmptyText, {})
\* the handler's catch: "... failed: " + err.message
FailedReply(kind, sid) == Reply("failed", kind, sid, 0, <<>>, <<>>, EmptyText, {})
\* formatRoundResponses(responses) with the session id and the round number
RoundReply(sid, round, responses) ==
    Reply("round", "", sid, round, responses, <<>>, EmptyText, {})
\* formatResult(result)
ResultReply(sid, rounds, synthesis, modelsFailed) ==
    Reply("result", "", sid, 0, <<>>, rounds, synthesis, modelsFailed)

\* the locals of a handler activation that outlive an await
IdleTask ==
    [kind |-> "none", pc |-> "idle", sid |-> 0, topic |-> "", models |-> <<>>,
     resolved |-> <<>>, synthModel |-> ResolveError("", <<>>), totalRounds |-> 0, synth |-> <<>>, systemPrompt |-> NoPrompt,
     round |-> 0, calls |-> <<>>, fallbackIdx |-> 0, called |-> <<>>,
     allRounds |-> <<>>, failedSet |-> {}, totalChars |-> 0, reply |-> NoReply]

\* a continuation is ready to run: the promise its handler awaits has settled
ready(task) == task.pc \in {"round", "synth"} /\ allSettled(task.calls)
\* no continuation is ready: the event loop takes the next request, response or timer
Quiescent == \A t \in TaskIds : ~ready(tasks[t])

Finish(task, reply) == [task EXCEPT !.pc = "done", !.reply = reply]

\* a new activation takes the first slot that holds none: a slot is free before its
\* first use and once its handler has returned (its reply stays readable until then)
free(task) == task.pc \in {"idle", "done"}
firstFree(t) == free(tasks[t]) /\ \A u \in 1..(t - 1) : ~free(tasks[u])

\* a DebateSession object no longer referenced, by the Map or by a handler that
\* holds it across an await, is garbage
Collected ==
    [id |-> 0, topic |-> "", modelIdentifiers |-> <<>>, totalRounds |-> 0,
     synthesizerIdentifier |-> <<>>, systemPrompt |-> "", createdAt |-> 0, startTime |-> 0,
     currentRound |-> 0, rounds |-> <<>>, failedModels |-> {},
     totalCharsProcessed |-> 0, status |-> "collected"]
\* the journal of a session id: the brainstorm_respond requests accepted for it,
\* when the last one was accepted, whether it has completed, whether deleteSession
\* was called for it, whether a create evicted it to make room, and when it was
\* created
NoEntry == [accepted |-> 0, acceptedAt |-> 0, complete |-> FALSE, deleted |-> FALSE, evicted |-> FALSE, createdAt |-> 0]
holds(task, id) == task.kind = "respond" /\ ~free(task) /\ task.sid = id
live(hp, st, tk) ==
    [id \in DOMAIN hp |->
        IF (\E i \in 1..Len(st) : st[i] = id) \/ (\E t \in DOMAIN tk : holds(tk[t], id))
        THEN hp[id] ELSE Collected]

\* models.map(m => callModel(m.resolved, m.label, sys, user)): the N promises
issueRound(cache, resolved, labels, sys, user) ==
    [i \in 1..Len(labels) |->
        callModelIssue(poolAfter(cache, SubSeq(resolved, 1, i - 1)), resolved[i],
                       labels[i], sys, user)]
\* the pool after getClient has run for those of the models whose call went out
poolAfterRound(cache, resolved) == poolAfter(cache, resolved)

resolveAll(reg, ids) == [i \in 1..Len(ids) |-> resolveModel(reg, ids[i])]
\* fault variant: the identifiers are not checked before the round starts
allResolveUnchecked(reg, ids) == TRUE
allResolve(reg, ids) == \A i \in 1..Len(ids) : resolveModel(reg, ids[i]).ok
\* the error thrown by the first identifier that does not resolve
firstResolveError(reg, ids) ==
    resolveModel(reg, ids[CHOOSE i \in 1..Len(ids) :
        /\ ~resolveModel(reg, ids[i]).ok
        /\ \A j \in 1..(i - 1) : resolveModel(reg, ids[j]).ok]).kind

\* models.ts getDefaultModels
getDefaultModels(reg) == [i \in 1..Len(reg) |-> MkId(reg[i].name, reg[i].defaultModel)]

NoSynth == <<>>    \* the optional synthesizer argument when it is not given

contentChars(responses) == SumSeq([i \in 1..Len(responses) |-> responses[i].content.len])

-----------------------------------------------------------------------------
(* debate.ts: runExternalRound, up to its await *)

\* fault variant: the first round is given the prior transcript as the later ones
roundMessagesWithHistory(topic, roundNumber, totalRounds, previousRounds, systemPrompt) ==
    [sys |-> IF roundNumber = 1 THEN round1System(systemPrompt)
             ELSE roundSystem(roundNumber, totalRounds, TRUE),
     user |-> roundUserMessage(topic, buildHistoryContext(previousRounds), roundNumber)]
\* the system and user message of round roundNumber
roundMessages(topic, roundNumber, totalRounds, previousRounds, systemPrompt) ==
    IF roundNumber = 1
    THEN [sys |-> round1System(systemPrompt), user |-> round1User(topic)]
    ELSE [sys |-> roundSystem(roundNumber, totalRounds, TRUE),
          user |-> roundUserMessage(topic, buildHistoryContext(previousRounds), roundNumber)]

\* the activation once Promise.allSettled has been called on the N promises
runExternalRound(task, reg, cache, topic, ids, roundNumber, totalRounds, previousRounds, systemPrompt) ==
    LET resolved == resolveAll(reg, ids)
        m == roundMessages(topic, roundNumber, totalRounds, previousRounds, systemPrompt)
    IN  [task EXCEPT !.pc = "round", !.round = roundNumber, !.resolved = resolved,
                     !.calls = issueRound(cache, resolved, ids, m.sys, m.user)]

-----------------------------------------------------------------------------
(* tools/brainstorm.ts: the brainstorm tool with participate = true *)

\* interactive brainstorm requests that have yet to create their session
creating == Cardinality({u \in TaskIds : tasks[u].kind = "brainstorm" /\ tasks[u].pc = "round"})

BrainstormInteractive(t, topic, models, rounds, synthesizer, systemPrompt) ==
    /\ Quiescent
    /\ firstFree(t)
    /\ nextId + creating <= MaxSessions
    /\ LET modelList == IF Len(models) > 0 THEN models ELSE getDefaultModels(providers)
           base == [IdleTask EXCEPT !.kind = "brainstorm", !.topic = topic,
                                    !.models = modelList, !.totalRounds = rounds,
                                    !.synth = synthesizer, !.systemPrompt = systemPrompt]
       IN  IF Len(modelList) < 1
           THEN /\ tasks' = [tasks EXCEPT ![t] = Finish(base, ErrorReply("NeedOneModel", 0))]
                /\ UNCHANGED clientCache
           ELSE IF ~allResolve(providers, modelList)
           THEN /\ tasks' = [tasks EXCEPT ![t] =
                        Finish(base, FailedReply(firstResolveError(providers, modelList), 0))]
                /\ UNCHANGED clientCache
           ELSE /\ tasks' = [tasks EXCEPT ![t] =
                        runExternalRound(base, providers, clientCache, topic, modelList, 1,
                                         rounds, <<>>, systemPrompt)]
                /\ clientCache' = poolAfterRound(clientCache, resolveAll(providers, modelList))
    /\ UNCHANGED <<now, providers, heap, store, nextId, journal>>

\* fault variant: the failures of round 1 are not recorded in the session
storeFirstRoundUnseeded(session, responses, failedModels) ==
    [session EXCEPT !.rounds = Append(@, responses),
                    !.currentRound = 1,
                    !.totalCharsProcessed = @ + contentChars(responses)]
\* the handler stores the external responses of round 1 in the new session
storeFirstRound(session, responses, failedModels) ==
    [session EXCEPT !.rounds = Append(@, responses),
                    !.currentRound = 1,
                    !.totalCharsProcessed = @ + contentChars(responses),
                    !.failedModels = @ \cup failedModels]

\* round 1 has settled: runExternalRound returns and the handler creates the session
BrainstormJoin(t) ==
    /\ tasks[t].kind = "brainstorm"
    /\ ready(tasks[t])
    /\ LET awaited == awaitAllSettled(tasks[t].calls)
           responses == collectRoundResponses(awaited.results, tasks[t].models, tasks[t].round)
           failedModels == collectFailed(awaited.results, tasks[t].models, {})
           task == [tasks[t] EXCEPT !.failedSet = failedModels]
           created == newSession(nextId, now, task.topic, task.models, task.totalRounds,
                                 IF task.synth # NoSynth THEN task.synth ELSE task.models[1],
                                 task.systemPrompt)
           session == storeFirstRound(created, responses, failedModels)
       IN  IF awaited.threw
           THEN \* the handler's catch
                /\ tasks' = [tasks EXCEPT ![t] = Finish(tasks[t], FailedReply(awaited.reason.kind, 0))]
                /\ UNCHANGED <<store, nextId, heap, journal>>
           ELSE /\ store' = createSession(store, heap, now, StoreCapacity, nextId)
                /\ nextId' = nextId + 1
                /\ tasks' = [tasks EXCEPT ![t] = Finish(task, RoundReply(nextId, 1, responses))]
                /\ heap' = live(Append(heap, session), store', tasks')
                /\ journal' = [id \in DOMAIN journal |->
                       IF id = nextId THEN [NoEntry EXCEPT !.createdAt = now]
                       ELSE IF inStore(cleanExpired(store, heap, now), id) /\ ~inStore(store', id)
                       THEN [journal[id] EXCEPT !.evicted = TRUE] ELSE journal[id]]
    /\ UNCHANGED <<now, providers, clientCache>>

-----------------------------------------------------------------------------
(* The environment: the backend settles a call, time passes *)

Settle(t, i, o) ==
    /\ Quiescent
    /\ tasks[t].pc \in {"round", "synth"}
    /\ i \in 1..Len(tasks[t].calls)
    /\ tasks[t].calls[i].state = "pending"
    /\ tasks' = [tasks EXCEPT ![t].calls[i] = callModelSettle(@, o)]
    /\ UNCHANGED <<now, providers, clientCache, heap, store, nextId, journal>>

\* time passes until the clock reads d
Tick(d) ==
    /\ Quiescent
    /\ d > now
    /\ now' = d
    /\ UNCHANGED <<providers, clientCache, heap, store, nextId, tasks, journal>>

-----------------------------------------------------------------------------
(* debate.ts: runSynthesis *)

\* the next identifier runSynthesis calls, from position `from` on: position 0 is
\* the designated synthesizer, position i >= 1 is modelIdentifiers[i]; an entry equal
\* to the synthesizer is skipped and one that does not resolve throws into the
\* catch that continues the loop.  -1: none is left
\* fault variant: the fallback loop without its "continue" on the synthesizer
nextCandidateNoSkip(reg, ids, synthId, from) ==
    IF from = 0 /\ resolveModel(reg, synthId).ok THEN 0
    ELSE LET left == {i \in Max(from, 1)..Len(ids) : resolveModel(reg, ids[i]).ok}
         IN  IF left = {} THEN -1 ELSE CHOOSE i \in left : \A j \in left : i <= j
nextCandidate(reg, ids, synthId, from) ==
    IF from = 0 /\ resolveModel(reg, synthId).ok THEN 0
    ELSE LET left == {i \in Max(from, 1)..Len(ids) :
                         ids[i] # synthId /\ resolveModel(reg, ids[i]).ok}
         IN  IF left = {} THEN -1 ELSE CHOOSE i \in left : \A j \in left : i <= j

candidate(ids, synthId, idx) == IF idx = 0 THEN synthId ELSE ids[idx]

\* runSynthesis up to its next await, trying the candidates from position `from` on
synthStep(task, reg, cache, ids, synthId, from, sys, user) ==
    LET idx == nextCandidate(reg, ids, synthId, from)
        label == candidate(ids, synthId, idx)
    IN  IF idx = -1
        THEN [task EXCEPT !.pc = "synth", !.calls = <<>>, !.fallbackIdx = Len(ids) + 1]
        ELSE [task EXCEPT !.pc = "synth", !.fallbackIdx = idx,
                          !.called = Append(@, label),
                          !.calls = <<callModelIssue(cache, resolveModel(reg, label),
                                                     label, sys, user)>>]
\* the pool after that step
synthPool(reg, cache, ids, synthId, from) ==
    LET idx == nextCandidate(reg, ids, synthId, from)
    IN  IF idx = -1 THEN cache
        ELSE getClientCache(cache, resolveModel(reg, candidate(ids, synthId, idx)))

synthFulfilled(task) == task.calls # <<>> /\ task.calls[1].state = "fulfilled"
\* the position runSynthesis goes on with after the awaited call has failed
synthResume(task, ids) == IF task.calls = <<>> THEN Len(ids) + 1 ELSE task.fallbackIdx + 1
\* runSynthesis returns: a call succeeded or no candidate is left
synthReturns(task, reg, ids, synthId) ==
    synthFulfilled(task) \/ nextCandidate(reg, ids, synthId, synthResume(task, ids)) = -1
\* fault variant: without the fixed sentence of the last return
synthTextNoFallback(task) == IF task.calls # <<>> THEN task.calls[1].value ELSE EmptyText
synthText(task) == IF synthFulfilled(task) THEN task.calls[1].value ELSE FallbackSentence

-----------------------------------------------------------------------------
(* tools/brainstorm-respond.ts: the brainstorm_respond tool *)

\* fault variant: the contribution carries the number of the round to come
hostResponseNext(round, response) ==
    RoundResponse(<<"claude", ":", "host">>, round + 1, response, NoError)
hostResponse(round, response) == RoundResponse(<<"claude", ":", "host">>, round, response, NoError)

\* fault variant: the contribution is counted but not pushed
pushHostLost(session, response) ==
    [session EXCEPT !.totalCharsProcessed = @ + response.len]
\* fault variant: the final round marks the session complete before the synthesis
pushHostCompleting(session, response) ==
    [session EXCEPT
        !.rounds[session.currentRound] = Append(@, hostResponse(session.currentRound, response)),
        !.totalCharsProcessed = @ + response.len,
        !.status = IF session.currentRound >= session.totalRounds THEN "complete" ELSE @]
\* the session after "session.rounds[currentRound - 1].push(claudeResponse)" and the
\* addition to totalCharsProcessed
pushHost(session, response) ==
    [session EXCEPT
        !.rounds[session.currentRound] = Append(@, hostResponse(session.currentRound, response)),
        !.totalCharsProcessed = @ + response.len]

Respond(t, sid, response) ==
    /\ Quiescent
    /\ firstFree(t)
    /\ LET base == [IdleTask EXCEPT !.kind = "respond", !.sid = sid]
           found == getSessionFound(store, heap, now, sid)
       IN  /\ store' = getSessionStore(store, heap, now, sid)
           /\ IF ~found
              THEN /\ tasks' = [tasks EXCEPT ![t] = Finish(base, ErrorReply("SessionNotFound", sid))]
                   /\ heap' = live(heap, store', tasks')
                   /\ UNCHANGED <<clientCache, journal>>
              ELSE IF heap[sid].status = "complete"
              THEN /\ tasks' = [tasks EXCEPT ![t] = Finish(base, ErrorReply("SessionComplete", sid))]
                   /\ UNCHANGED <<heap, clientCache, journal>>
              ELSE IF heap[sid].currentRound \notin 1..Len(heap[sid].rounds)
              THEN \* rounds[currentRound - 1] is undefined: push throws a TypeError
                   /\ tasks' = [tasks EXCEPT ![t] = Finish(base, FailedReply("TypeError", sid))]
                   /\ UNCHANGED <<heap, clientCache, journal>>
              ELSE LET session == pushHost(heap[sid], response)
                       currentRound == session.currentRound
                       ids == session.modelIdentifiers
                       mine == [base EXCEPT !.topic = session.topic, !.models = ids,
                                            !.totalRounds = session.totalRounds,
                                            !.synth = session.synthesizerIdentifier,
                                            !.systemPrompt = session.systemPrompt]
                   IN  /\ journal' = [journal EXCEPT ![sid].accepted = @ + 1, ![sid].acceptedAt = now]
                       /\ IF currentRound >= session.totalRounds
                          THEN /\ tasks' = [tasks EXCEPT ![t] =
                                    synthStep([mine EXCEPT !.round = currentRound], providers,
                                        clientCache, ids, session.synthesizerIdentifier, 0,
                                        synthesisSystem,
                                        synthesisUserMessage(session.topic,
                                            buildHistoryContext(session.rounds)))]
                               /\ clientCache' = synthPool(providers, clientCache, ids,
                                                           session.synthesizerIdentifier, 0)
                          ELSE IF ~allResolve(providers, ids)
                          THEN /\ tasks' = [tasks EXCEPT ![t] =
                                    Finish(mine, FailedReply(firstResolveError(providers, ids), sid))]
                               /\ UNCHANGED clientCache
                          ELSE /\ tasks' = [tasks EXCEPT ![t] =
                                    runExternalRound(mine, providers, clientCache, session.topic,
                                        ids, currentRound + 1, session.totalRounds,
                                        session.rounds, session.systemPrompt)]
                               /\ clientCache' = poolAfterRound(clientCache, resolveAll(providers, ids))
                       /\ heap' = live([heap EXCEPT ![sid] = session], store', tasks')
    /\ UNCHANGED <<now, providers, nextId>>

\* fault variant: the round counter is advanced by one from what the session holds
storeNextRoundIncrement(session, nextRound, nextResponses, failedModels) ==
    [session EXCEPT !.rounds = Append(@, nextResponses),
                    !.currentRound = @ + 1,
                    !.totalCharsProcessed = @ + contentChars(nextResponses),
                    !.failedModels = @ \cup failedModels]
\* the handler stores the external responses of the next round in the session
storeNextRound(session, nextRound, nextResponses, failedModels) ==
    [session EXCEPT !.rounds = Append(@, nextResponses),
                    !.currentRound = nextRound,
                    !.totalCharsProcessed = @ + contentChars(nextResponses),
                    !.failedModels = @ \cup failedModels]

\* the next round has settled: runExternalRound returns and the handler stores it
RespondRoundJoin(t) ==
    /\ tasks[t].kind = "respond"
    /\ tasks[t].pc = "round"
    /\ ready(tasks[t])
    /\ LET awaited == awaitAllSettled(tasks[t].calls)
           nextRound == tasks[t].round
           nextResponses == collectRoundResponses(awaited.results, tasks[t].models, nextRound)
           failedModels == collectFailed(awaited.results, tasks[t].models, {})
           task == [tasks[t] EXCEPT !.failedSet = failedModels]
       IN  IF awaited.threw
           THEN \* the handler's catch
                /\ tasks' = [tasks EXCEPT ![t] =
                       Finish(tasks[t], FailedReply(awaited.reason.kind, task.sid))]
                /\ heap' = live(heap, store, tasks')
           ELSE /\ tasks' = [tasks EXCEPT ![t] =
                       Finish(task, RoundReply(task.sid, nextRound, nextResponses))]
                /\ heap' = live([heap EXCEPT ![task.sid] =
                       storeNextRound(@, nextRound, nextResponses, failedModels)],
                       store, tasks')
    /\ UNCHANGED <<now, providers, clientCache, store, nextId, journal>>

\* the awaited synthesis call has settled: runSynthesis goes on to the next
\* candidate, or returns and the handler completes the session
RespondSynthJoin(t) ==
    /\ tasks[t].kind = "respond"
    /\ tasks[t].pc = "synth"
    /\ ready(tasks[t])
    /\ LET task == tasks[t]
           session == heap[task.sid]
           ids == task.models
       IN  IF synthReturns(task, providers, ids, task.synth)
           THEN LET synthesis == synthText(task)
                IN  /\ store' = deleteSession(store, task.sid)
                    /\ tasks' = [tasks EXCEPT ![t] =
                           Finish(task, ResultReply(task.sid, session.rounds, synthesis,
                                                    session.failedModels))]
                    /\ heap' = live([heap EXCEPT ![task.sid] =
                           [@ EXCEPT !.totalCharsProcessed = @ + synthesis.len,
                                     !.status = "complete"]], store', tasks')
                    /\ journal' = [journal EXCEPT ![task.sid].complete = TRUE, ![task.sid].deleted = TRUE]
                    /\ UNCHANGED clientCache
           ELSE /\ tasks' = [tasks EXCEPT ![t] =
                       synthStep(task, providers, clientCache, ids, task.synth,
                                 synthResume(task, ids), task.calls[1].sys, task.calls[1].user)]
                /\ clientCache' = synthPool(providers, clientCache, ids, task.synth,
                                            synthResume(task, ids))
                /\ UNCHANGED <<heap, store, journal>>
    /\ UNCHANGED <<now, providers, nextId>>

-----------------------------------------------------------------------------
(* debate.ts: runDebate, reached through the brainstorm tool with participate = false *)

\* fault variant: the fallback loop without its "continue" on the synthesizer
nextFallbackNoSkip(labels, synthLabel, from) ==
    IF Max(from, 1) <= Len(labels) THEN Max(from, 1) ELSE -1
\* the next model of the fallback loop after position `from`: -1 when none is left
nextFallback(labels, synthLabel, from) ==
    LET left == {i \in Max(from, 1)..Len(labels) : labels[i] # synthLabel}
    IN  IF left = {} THEN -1 ELSE CHOOSE i \in left : \A j \in left : i <= j

BrainstormDebate(t, topic, models, rounds, synthesizer, systemPrompt) ==
    /\ Quiescent
    /\ firstFree(t)
    /\ LET modelList == IF Len(models) > 0 THEN models ELSE getDefaultModels(providers)
           synthesizerLabel == IF synthesizer # NoSynth THEN synthesizer ELSE modelList[1]
           base == [IdleTask EXCEPT !.kind = "debate", !.topic = topic,
                                    !.models = modelList, !.totalRounds = rounds,
                                    !.systemPrompt = systemPrompt]
       IN  IF Len(modelList) < 2
           THEN /\ tasks' = [tasks EXCEPT ![t] = Finish(base, ErrorReply("NeedTwoModels", 0))]
                /\ UNCHANGED clientCache
           ELSE IF ~allResolve(providers, modelList)
           THEN /\ tasks' = [tasks EXCEPT ![t] =
                        Finish(base, FailedReply(firstResolveError(providers, modelList), 0))]
                /\ UNCHANGED clientCache
           ELSE IF ~resolveModel(providers, synthesizerLabel).ok
           THEN /\ tasks' = [tasks EXCEPT ![t] =
                        Finish(base, FailedReply(resolveModel(providers, synthesizerLabel).kind, 0))]
                /\ UNCHANGED clientCache
           ELSE LET resolved == resolveAll(providers, modelList)
                IN  /\ tasks' = [tasks EXCEPT ![t] =
                           [base EXCEPT !.pc = "round", !.round = 1, !.resolved = resolved,
                                        !.synth = synthesizerLabel,
                                        !.synthModel = resolveModel(providers, synthesizerLabel),
                                        !.calls = issueRound(clientCache, resolved, modelList,
                                                     round1System(systemPrompt), round1User(topic))]]
                    /\ clientCache' = poolAfterRound(clientCache, resolved)
    /\ UNCHANGED <<now, providers, heap, store, nextId, journal>>

\* round task.round has settled: its responses are collected and pushed, and the
\* next round, or after the last round the synthesis, is started
DebateRoundJoin(t) ==
    /\ tasks[t].kind = "debate"
    /\ tasks[t].pc = "round"
    /\ ready(tasks[t])
    /\ LET task == tasks[t]
           awaited == awaitAllSettled(task.calls)
           roundResponses == collectRoundResponses(awaited.results, task.models, task.round)
           allRounds == Append(task.allRounds, roundResponses)
           pushed == [task EXCEPT !.allRounds = allRounds,
                                  !.failedSet = collectFailed(awaited.results, task.models, @),
                                  !.totalChars = @ + contentChars(roundResponses)]
           r == task.round + 1
       IN  IF awaited.threw
           THEN \* runDebate rejects: the handler's catch
                /\ tasks' = [tasks EXCEPT ![t] = Finish(task, FailedReply(awaited.reason.kind, 0))]
                /\ UNCHANGED clientCache
           ELSE IF r <= task.totalRounds
           THEN /\ tasks' = [tasks EXCEPT ![t] =
                       [pushed EXCEPT !.round = r,
                                      !.calls = issueRound(clientCache, task.resolved, task.models,
                                          roundSystem(r, task.totalRounds, FALSE),
                                          roundUserMessage(task.topic,
                                              buildHistoryContext(allRounds), r))]]
                /\ clientCache' = poolAfterRound(clientCache, task.resolved)
           ELSE /\ tasks' = [tasks EXCEPT ![t] =
                       [pushed EXCEPT !.pc = "synth", !.fallbackIdx = 0,
                                      !.called = <<task.synth>>,
                                      !.calls = <<callModelIssue(clientCache, task.synthModel,
                                          task.synth, synthesisSystem,
                                          synthesisUserMessage(task.topic,
                                              buildHistoryContext(allRounds)))>>]]
                /\ clientCache' = getClientCache(clientCache, task.synthModel)
    /\ UNCHANGED <<now, providers, heap, store, nextId, journal>>

\* the awaited synthesis call has settled: the result is assembled, or the next
\* model of the fallback loop is called
DebateSynthJoin(t) ==
    /\ tasks[t].kind = "debate"
    /\ tasks[t].pc = "synth"
    /\ ready(tasks[t])
    /\ LET task == tasks[t]
           idx == nextFallback(task.models, task.synth, task.fallbackIdx + 1)
       IN  IF synthFulfilled(task) \/ idx = -1
           THEN LET synthesis == synthText(task)
                IN  /\ tasks' = [tasks EXCEPT ![t] =
                           Finish([task EXCEPT !.totalChars =
                                       @ + (IF synthFulfilled(task) THEN synthesis.len ELSE 0)],
                                  ResultReply(0, task.allRounds, synthesis, task.failedSet))]
                    /\ UNCHANGED clientCache
           ELSE /\ tasks' = [tasks EXCEPT ![t] =
                       [task EXCEPT !.fallbackIdx = idx,
                                    !.called = Append(@, task.models[idx]),
                                    !.calls = <<callModelIssue(clientCache, task.resolved[idx],
                                        task.models[idx], task.calls[1].sys, task.calls[1].user)>>]]
                /\ clientCache' = getClientCache(clientCache, task.resolved[idx])
    /\ UNCHANGED <<now, providers, heap, store, nextId, journal>>

-----------------------------------------------------------------------------
(* debate.ts: runSynthesis called on its own (it is an exported entry point) *)

TextReply(synthesis) == Reply("text", "", 0, 0, <<>>, <<>>, synthesis, {})

RunSynthesis(t, topic, allRounds, synthesizerIdentifier, modelIdentifiers) ==
    /\ Quiescent
    /\ firstFree(t)
    /\ tasks' = [tasks EXCEPT ![t] =
           synthStep([IdleTask EXCEPT !.kind = "synthesis", !.topic = topic,
                                      !.models = modelIdentifiers,
                                      !.synth = synthesizerIdentifier,
                                      !.allRounds = allRounds],
                     providers, clientCache, modelIdentifiers, synthesizerIdentifier, 0,
                     synthesisSystem,
                     synthesisUserMessage(topic, buildHistoryContext(allRounds)))]
    /\ clientCache' = synthPool(providers, clientCache, modelIdentifiers,
                                synthesizerIdentifier, 0)
    /\ UNCHANGED <<now, providers, heap, store, nextId, journal>>

SynthesisJoin(t) ==
    /\ tasks[t].kind = "synthesis"
    /\ tasks[t].pc = "synth"
    /\ ready(tasks[t])
    /\ LET task == tasks[t]
       IN  IF synthReturns(task, providers, task.models, task.synth)
           THEN /\ tasks' = [tasks EXCEPT ![t] = Finish(task, TextReply(synthText(task)))]
                /\ UNCHANGED clientCache
           ELSE /\ tasks' = [tasks EXCEPT ![t] =
                       synthStep(task, providers, clientCache, task.models, task.synth,
                                 synthResume(task, task.models),
                                 task.calls[1].sys, task.calls[1].user)]
                /\ clientCache' = synthPool(providers, clientCache, task.models, task.synth,
                                            synthResume(task, task.models))
    /\ UNCHANGED <<now, providers, heap, store, nextId, journal>>

-----------------------------------------------------------------------------
(* The inputs explored *)

IdOG == MkId(ProvO, <<"g">>)       \* "o:g": resolves, key set
IdLM == MkId(ProvL, <<"m">>)       \* "l:m": resolves, no key needed
IdDC == MkId(ProvD, <<"c">>)       \* "d:c": resolves, key missing: getClient throws
IdXY == MkId(ProvX, <<"y">>)       \* "x:y": unknown provider
IdNoColon == <<"o", "g">>          \* "og": no colon
IdNoModel == <<"o", Colon>>        \* "o:": empty model portion

HostTexts == {Text("host", HostMinChars)}
\* the instants at which the clock is read, besides start-up
Instants == {1, SESSION_TTL_MS + 1}

\* what a backend may do with a call
AnswerText == Answer(Text("answer", 1))
AllOutcomes == {AnswerText, Answer(EmptyText), Abort, Reject(<<"e">>), Reject(<<>>),
                Reject(Aborted)}
SomeOutcomes == {AnswerText, Answer(EmptyText), Abort, Reject(<<"e">>)}

Init ==
    /\ now = 0
    /\ providers = InitProviders
    /\ clientCache = {}
    /\ heap = <<>>
    /\ store = <<>>
    /\ nextId = 1
    /\ tasks = [t \in TaskIds |-> IdleTask]
    /\ journal = [id \in 1..MaxSessions |-> NoEntry]

-----------------------------------------------------------------------------
(* Spec: the server with interactive sessions; requests overlap freely *)

SessionLists == {<<IdOG, IdDC>>}
SessionSynths == {NoSynth}

Next ==
    \/ \E t \in TaskIds, models \in SessionLists, rounds \in 1..MaxRounds,
          synthesizer \in SessionSynths :
          BrainstormInteractive(t, "q", models, rounds, synthesizer, NoPrompt)
    \/ \E t \in TaskIds : BrainstormJoin(t)
    \/ \E t \in TaskIds, sid \in 1..MaxSessions, response \in HostTexts :
          Respond(t, sid, response)
    \/ \E t \in TaskIds : RespondRoundJoin(t)
    \/ \E t \in TaskIds : RespondSynthJoin(t)
    \/ \E t \in TaskIds, i \in 1..2 : Settle(t, i, AnswerText)
    \/ \E d \in Instants : Tick(d)

Spec == Init /\ [][Next]_vars

-----------------------------------------------------------------------------
(* SpecSerial: the same server when the callers serialize the requests of a
   session id, as the design assumes: no brainstorm_respond for an id is sent
   while another one for that id is in progress *)

serialized(sid) == \A u \in TaskIds : ~holds(tasks[u], sid)

NextSerial ==
    \/ \E t \in TaskIds, models \in SessionLists, rounds \in 1..MaxRounds,
          synthesizer \in SessionSynths :
          BrainstormInteractive(t, "q", models, rounds, synthesizer, NoPrompt)
    \/ \E t \in TaskIds : BrainstormJoin(t)
    \/ \E t \in TaskIds, sid \in 1..MaxSessions, response \in HostTexts :
          serialized(sid) /\ Respond(t, sid, response)
    \/ \E t \in TaskIds : RespondRoundJoin(t)
    \/ \E t \in TaskIds : RespondSynthJoin(t)
    \/ \E t \in TaskIds, i \in 1..2 : Settle(t, i, AnswerText)
    \/ \E d \in Instants : Tick(d)

SpecSerial == Init /\ [][NextSerial]_vars

-----------------------------------------------------------------------------
(* SpecRounds: one debate from start-up, in either workflow, its requests one at
   a time, with every kind of backend failure *)

RoundLists == {<<IdOG, IdLM>>, <<IdLM, IdDC, IdOG>>, <<IdOG, IdXY>>}
RoundSynths == {NoSynth, IdLM, IdXY}
idle == \A u \in TaskIds : free(tasks[u])
fresh == \A u \in TaskIds : tasks[u].pc = "idle"

NextRounds ==
    \/ \E models \in RoundLists, rounds \in 1..MaxRounds, synthesizer \in RoundSynths :
          fresh /\ BrainstormInteractive(1, "q", models, rounds, synthesizer, NoPrompt)
    \/ BrainstormJoin(1)
    \/ \E sid \in 1..MaxSessions, response \in HostTexts :
          idle /\ Respond(1, sid, response)
    \/ RespondRoundJoin(1)
    \/ RespondSynthJoin(1)
    \/ \E models \in RoundLists, rounds \in 1..MaxRounds, synthesizer \in RoundSynths :
          fresh /\ BrainstormDebate(1, "q", models, rounds, synthesizer, NoPrompt)
    \/ DebateRoundJoin(1)
    \/ DebateSynthJoin(1)
    \/ \E i \in 1..3, o \in SomeOutcomes : Settle(1, i, o)

SpecRounds == Init /\ [][NextRounds]_vars

-----------------------------------------------------------------------------
(* SpecSettling: one debate from start-up, in either workflow, when every backend
   call settles, with an answer or by the abort of callModel's timer, and the
   event loop runs every continuation that is ready *)

NextSettling ==
    \/ \E rounds \in 1..MaxRounds :
          fresh /\ BrainstormInteractive(1, "q", <<IdOG, IdDC>>, rounds, NoSynth, NoPrompt)
    \/ BrainstormJoin(1)
    \/ \E response \in HostTexts : idle /\ Respond(1, 1, response)
    \/ RespondRoundJoin(1)
    \/ RespondSynthJoin(1)
    \/ \E models \in {<<IdOG, IdLM>>, <<IdLM, IdDC, IdOG>>}, rounds \in 1..MaxRounds :
          \E synthesizer \in {NoSynth, IdLM} :
             fresh /\ BrainstormDebate(1, "q", models, rounds, synthesizer, NoPrompt)
    \/ DebateRoundJoin(1)
    \/ DebateSynthJoin(1)
    \/ \E i \in 1..3, o \in {AnswerText, Abort} : Settle(1, i, o)

SpecSettling ==
    /\ Init /\ [][NextSettling]_vars
    /\ WF_vars(\/ \E i \in 1..3, o \in {AnswerText, Abort} : Settle(1, i, o)
               \/ BrainstormJoin(1) \/ RespondRoundJoin(1) \/ RespondSynthJoin(1)
               \/ DebateRoundJoin(1) \/ DebateSynthJoin(1))

-----------------------------------------------------------------------------
(* SpecSynth: runSynthesis on its own, over synthesizer identifiers and
   participant lists of every kind *)

SynthLists == {<<IdOG>>, <<IdOG, IdLM>>, <<IdXY, IdOG, IdDC, IdOG, IdLM>>,
               <<IdNoColon, IdDC>>, <<IdDC, IdNoModel>>}
SynthIds == {IdOG, IdLM, IdDC, IdXY}
Transcripts == {<<>>, << <<RoundResponse(IdOG, 1, Text("answer", 1), NoError)>> >>}

NextSynth ==
    \/ \E ids \in SynthLists, synthesizer \in SynthIds, allRounds \in Transcripts :
          idle /\ RunSynthesis(1, "q", allRounds, synthesizer, ids)
    \/ SynthesisJoin(1)
    \/ \E o \in AllOutcomes : Settle(1, 1, o)

SpecSynth == Init /\ [][NextSynth]_vars

\* the same with the timer of callModel: a call still in flight at its deadline is
\* aborted (setTimeout(() => controller.abort(), timeoutMs))
SpecSynthTimed == SpecSynth /\ WF_vars(Settle(1, 1, Abort))

-----------------------------------------------------------------------------
(* SpecResolve: resolveModel on identifiers of every form, while the add_provider
   tool extends the registry *)

\* resolveModel(identifier): the activation keeps the identifier and what the
\* call gave, the Resolved Model or the error thrown
ResolveModel(t, identifier) ==
    /\ Quiescent
    /\ firstFree(t)
    /\ tasks' = [tasks EXCEPT ![t] =
           Finish([IdleTask EXCEPT !.kind = "resolve", !.synth = identifier,
                                   !.synthModel = resolveModel(providers, identifier)],
                  NoReply)]
    /\ UNCHANGED <<now, providers, clientCache, heap, store, nextId, journal>>

\* fault variant: addProvider without its check, providers.set replacing the entry
AddProviderReplaces(t, config) ==
    /\ Quiescent
    /\ firstFree(t)
    /\ tasks' = [tasks EXCEPT ![t] =
           Finish([IdleTask EXCEPT !.kind = "add"], TextReply(EmptyText))]
    /\ providers' = IF hasProvider(providers, config.name)
                    THEN [i \in 1..Len(providers) |->
                            IF providers[i].name = config.name THEN config ELSE providers[i]]
                    ELSE Append(providers, config)
    /\ UNCHANGED <<now, clientCache, heap, store, nextId, journal>>
\* the add_provider tool: addProvider(config), or its error when the name is taken
AddProvider(t, config) ==
    /\ Quiescent
    /\ firstFree(t)
    /\ IF hasProvider(providers, config.name)
       THEN /\ tasks' = [tasks EXCEPT ![t] =
                   Finish([IdleTask EXCEPT !.kind = "add"], ErrorReply("AlreadyExists", 0))]
            /\ UNCHANGED providers
       ELSE /\ tasks' = [tasks EXCEPT ![t] =
                   Finish([IdleTask EXCEPT !.kind = "add"], TextReply(EmptyText))]
            /\ providers' = Append(providers, config)
    /\ UNCHANGED <<now, clientCache, heap, store, nextId, journal>>

\* the identifiers resolved have no colon, one, or two, and an empty provider or
\* model portion; the providers added at run time are "x", one with the empty
\* name, and one whose name holds a colon
NextResolve ==
    \/ \E t \in TaskIds :
          \E identifier \in {IdOG, IdLM, IdDC, IdXY, IdNoColon, IdNoModel, <<>>, <<Colon>>,
                             <<Colon, "g">>, <<"o", Colon, "g", Colon, "h">>,
                             <<"x", Colon, Colon>>} :
             ResolveModel(t, identifier)
    \/ \E t \in TaskIds :
          \E config \in {ProviderConfig(ProvX, <<"https://x">>, <<"NONE">>, <<"y">>),
                         ProviderConfig(<<>>, <<"https://e">>, <<"O_API_KEY">>, <<"g">>),
                         ProviderConfig(<<"x", Colon>>, <<"https://c">>, <<"NONE">>, <<"z">>)} :
             AddProvider(t, config)

SpecResolve == Init /\ [][NextResolve]_vars

-----------------------------------------------------------------------------
(* SpecExternal: runExternalRound called on its own (it is an exported entry
   point), with any round number and any prior transcript *)

RunExternalRound(t, topic, modelIdentifiers, roundNumber, totalRounds, previousRounds, systemPrompt) ==
    /\ Quiescent
    /\ firstFree(t)
    /\ LET base == [IdleTask EXCEPT !.kind = "external", !.topic = topic,
                                    !.models = modelIdentifiers, !.totalRounds = totalRounds,
                                    !.systemPrompt = systemPrompt,
                                    !.allRounds = previousRounds]
       IN  IF ~allResolve(providers, modelIdentifiers)
           THEN /\ tasks' = [tasks EXCEPT ![t] =
                       Finish(base, FailedReply(firstResolveError(providers, modelIdentifiers), 0))]
                /\ UNCHANGED clientCache
           ELSE /\ tasks' = [tasks EXCEPT ![t] =
                       runExternalRound(base, providers, clientCache, topic, modelIdentifiers,
                                        roundNumber, totalRounds, previousRounds, systemPrompt)]
                /\ clientCache' = poolAfterRound(clientCache,
                                                 resolveAll(providers, modelIdentifiers))
    /\ UNCHANGED <<now, providers, heap, store, nextId, journal>>

\* the round has settled: runExternalRound returns the responses and the failed models
ExternalJoin(t) ==
    /\ tasks[t].kind = "external"
    /\ ready(tasks[t])
    /\ LET awaited == awaitAllSettled(tasks[t].calls)
           responses == collectRoundResponses(awaited.results, tasks[t].models, tasks[t].round)
           failedModels == collectFailed(awaited.results, tasks[t].models, {})
       IN  tasks' = [tasks EXCEPT ![t] =
               Finish([tasks[t] EXCEPT !.failedSet = failedModels],
                      RoundReply(0, tasks[t].round, responses))]
    /\ UNCHANGED <<now, providers, clientCache, heap, store, nextId, journal>>

\* the prior transcripts: none, a round of two answers and the host's, a round
\* with a failure
NextExternal ==
    \/ \E modelIdentifiers \in {<<IdOG, IdLM>>, <<IdOG, IdDC, IdLM>>, <<IdOG, IdXY>>} :
          \E roundNumber \in 1..3, systemPrompt \in {NoPrompt, "p"} :
             \E previousRounds \in
                   {<<>>,
                    << <<RoundResponse(IdOG, 1, Text("answer", 1), NoError),
                         RoundResponse(IdLM, 1, Text("other", 2), NoError),
                         hostResponse(1, Text("host", HostMinChars))>> >>,
                    << <<RoundResponse(IdOG, 1, EmptyText, Msg("raw", <<>>, <<"e">>)),
                         RoundResponse(IdLM, 1, Text("answer", 1), NoError)>> >>} :
                fresh /\ RunExternalRound(1, "q", modelIdentifiers, roundNumber, 3,
                                          previousRounds, systemPrompt)
    \/ ExternalJoin(1)
    \/ \E i \in 1..3, o \in SomeOutcomes : Settle(1, i, o)

SpecExternal == Init /\ [][NextExternal]_vars

-----------------------------------------------------------------------------
(* SpecProviders: interactive sessions, one request at a time, while the
   add_provider tool extends the registry.  The providers added are "x" at
   endpoint "h::x" with no key, "y" at endpoint "h" with the key variable
   "x::NONE", which is not set, and a second "o" *)

NextProviders ==
    \/ \E t \in TaskIds :
          \E config \in {ProviderConfig(ProvX, <<"h", "::", "x">>, <<"NONE">>, <<"y">>),
                         ProviderConfig(<<"y">>, <<"h">>, <<"x", "::", "NONE">>, <<"y">>),
                         ProviderConfig(ProvO, <<"https://p">>, <<"NONE">>, <<"g">>)} :
             AddProvider(t, config)
    \/ \E models \in {<<IdOG, IdXY>>, <<IdXY, <<"y", Colon, "y">> >>, <<IdOG>>} :
          \E rounds \in 1..MaxRounds :
             idle /\ BrainstormInteractive(1, "q", models, rounds, NoSynth, NoPrompt)
    \/ BrainstormJoin(1)
    \/ \E sid \in 1..MaxSessions, response \in HostTexts : idle /\ Respond(1, sid, response)
    \/ RespondRoundJoin(1)
    \/ RespondSynthJoin(1)
    \/ \E i \in 1..2 : Settle(1, i, AnswerText)

SpecProviders == Init /\ [][NextProviders]_vars

-----------------------------------------------------------------------------
(* SpecOutcomes: one interactive session of two models, whose backends may do
   with a call anything a backend can do *)

NextOutcomes ==
    \/ \E rounds \in 1..MaxRounds :
          fresh /\ BrainstormInteractive(1, "q", <<IdOG, IdLM>>, rounds, NoSynth, NoPrompt)
    \/ BrainstormJoin(1)
    \/ \E response \in HostTexts : idle /\ Respond(1, 1, response)
    \/ RespondRoundJoin(1)
    \/ RespondSynthJoin(1)
    \/ \E i \in 1..2, o \in AllOutcomes : Settle(1, i, o)

SpecOutcomes == Init /\ [][NextOutcomes]_vars

-----------------------------------------------------------------------------
(* SpecHistory: buildHistoryContext over transcripts whose contents lie at and
   around the budget and the per-response share, as runSynthesis calls it *)

\* what a response holds: a content of the share of its transcript, of one
\* character more, of one character more than the budget, or a failure
\* (in the short transcripts also a content of one character less than the share)
HistoryKinds(shape) ==
    IF SumSeq(shape) <= 2 THEN {"under", "share", "over", "huge", "failed"}
    ELSE {"share", "over", "huge", "failed"}
historyResponse(kind, modelId, round, share) ==
    IF kind = "failed" THEN RoundResponse(modelId, round, EmptyText, Msg("raw", <<>>, <<"e">>))
    ELSE RoundResponse(modelId, round,
             Text("answer", IF kind = "under" THEN share - 1
                            ELSE IF kind = "share" THEN share
                            ELSE IF kind = "over" THEN share + 1
                            ELSE MAX_CONTEXT_CHARS + 1), NoError)
\* the participants of a round, in stored order: three models and the host
historyTranscript(shape, kinds) ==
    LET ids == <<IdOG, IdLM, IdDC, <<"claude", ":", "host">> >>
    IN  [r \in 1..Len(shape) |->
            [j \in 1..shape[r] |->
                historyResponse(kinds[<<r, j>>], ids[j], r,
                                MAX_CONTEXT_CHARS \div Max(SumSeq(shape), 1))]]

\* the sizes of the rounds of the transcripts explored: 0, 1, 2 and 7 responses
NextHistory ==
    \/ /\ fresh
       /\ \E shape \in {<<>>, <<1>>, <<2>>, <<3, 4>>} :
             \E kinds \in [{c \in (1..Len(shape)) \X (1..4) : c[2] <= shape[c[1]]}
                               -> HistoryKinds(shape)] :
                RunSynthesis(1, "q", historyTranscript(shape, kinds), IdOG, <<IdOG>>)
    \/ SynthesisJoin(1)
    \/ Settle(1, 1, AnswerText)

SpecHistory == Init /\ [][NextHistory]_vars

-----------------------------------------------------------------------------
(* SpecStore: sessions.ts on its own, with the capacity of the program: any
   sequence of createSession, getSession and deleteSession as time passes *)

\* createSession(params)
StoreCreate(topic, modelIdentifiers, totalRounds) ==
    /\ nextId <= MaxStoreIds
    /\ store' = createSession(store, heap, now, MAX_SESSIONS, nextId)
    /\ heap' = live(Append(heap, newSession(nextId, now, topic, modelIdentifiers, totalRounds,
                                            modelIdentifiers[1], NoPrompt)), store', tasks)
    /\ nextId' = nextId + 1
    /\ journal' = [id \in DOMAIN journal |->
           IF id = nextId THEN [NoEntry EXCEPT !.createdAt = now]
           ELSE IF inStore(cleanExpired(store, heap, now), id) /\ ~inStore(store', id)
           THEN [journal[id] EXCEPT !.evicted = TRUE] ELSE journal[id]]
    /\ UNCHANGED <<now, providers, clientCache, tasks>>

\* getSession(id)
StoreGet(id) ==
    /\ store' = getSessionStore(store, heap, now, id)
    /\ heap' = live(heap, store', tasks)
    /\ UNCHANGED <<now, providers, clientCache, nextId, tasks, journal>>

\* deleteSession(id)
StoreDelete(id) ==
    /\ store' = deleteSession(store, id)
    /\ heap' = live(heap, store', tasks)
    /\ journal' = IF id < nextId THEN [journal EXCEPT ![id].deleted = TRUE] ELSE journal
    /\ UNCHANGED <<now, providers, clientCache, nextId, tasks>>

\* get and delete are called with the ids of the last sessions that fill the store
StoreKeys == (MAX_SESSIONS - MaxStoreKeys + 1)..MAX_SESSIONS

NextStore ==
    \/ StoreCreate("q", <<IdOG>>, 1)
    \/ \E id \in StoreKeys : StoreGet(id)
    \/ \E id \in StoreKeys : StoreDelete(id)
    \/ \E d \in Instants : Tick(d)

\* the store model keeps a journal entry for every session it creates
InitStore ==
    /\ now = 0
    /\ providers = InitProviders
    /\ clientCache = {}
    /\ heap = <<>>
    /\ store = <<>>
    /\ nextId = 1
    /\ tasks = [t \in TaskIds |-> IdleTask]
    /\ journal = [id \in 1..MaxStoreIds |-> NoEntry]

SpecStore == InitStore /\ [][NextStore]_vars

-----------------------------------------------------------------------------
(* Properties of a round (SpecRounds) *)

\* task t leaves round tasks[t].round in this step: runExternalRound returns, or
\* runDebate goes on after the round's await
roundLeaves(t) ==
    /\ tasks[t].pc = "round"
    /\ tasks'[t].pc # "round" \/ tasks'[t].round # tasks[t].round
\* the responses the round that task t leaves has returned
roundResult(t) ==
    IF tasks[t].kind = "debate"
    THEN IF Len(tasks'[t].allRounds) >= tasks[t].round
         THEN tasks'[t].allRounds[tasks[t].round] ELSE <<>>
    ELSE tasks'[t].reply.responses
\* the indices of the calls of task t that have failed
failedCalls(task) == {i \in 1..Len(task.calls) : task.calls[i].state = "rejected"}
pendingCalls(task) == {i \in 1..Len(task.calls) : task.calls[i].state = "pending"}

\* C1: a round over N identifiers that all resolve returns exactly N responses,
\* one per identifier in list order, each with the round's number, whatever
\* subset of the N calls has failed
C1_RoundShape ==
    [][\A t \in TaskIds : roundLeaves(t) =>
          LET rs == roundResult(t)
              ids == tasks[t].models
          IN  /\ Len(rs) = Len(ids)
              /\ Len(tasks[t].calls) = Len(ids)
              /\ \A i \in 1..Len(rs) :
                    /\ rs[i].modelId = ids[i]
                    /\ rs[i].round = tasks[t].round]_vars
\* a round of three has returned with one success and two error entries
C1_Witness ==
    \E t \in TaskIds :
        /\ tasks[t].reply.type = "round"
        /\ Len(tasks[t].reply.responses) = 3
        /\ Cardinality({i \in 1..3 : tasks[t].reply.responses[i].error # NoError}) = 2

\* C2: a failing call never makes the round raise: it becomes the response of its
\* model, with empty content and the error text, and the model's identifier is in
\* the failed set of the round
C2_FailuresContained ==
    [][\A t \in TaskIds : roundLeaves(t) =>
          LET rs == roundResult(t) IN
          /\ tasks'[t].reply.type # "failed"
          /\ \A i \in failedCalls(tasks[t]) :
                /\ i <= Len(rs)
                /\ rs[i].content = EmptyText
                /\ rs[i].error = tasks[t].calls[i].reason
                /\ rs[i].error # NoError
                /\ tasks[t].models[i] \in tasks'[t].failedSet
          /\ \A i \in 1..Len(tasks[t].calls) \ failedCalls(tasks[t]) :
                tasks[t].kind # "debate" => tasks[t].models[i] \notin tasks'[t].failedSet]_vars
\* a round has returned although every one of its calls failed
C2_Witness ==
    \E t \in TaskIds :
        /\ tasks[t].reply.type = "round"
        /\ tasks[t].reply.responses # <<>>
        /\ \A i \in 1..Len(tasks[t].reply.responses) :
              /\ tasks[t].reply.responses[i].error # NoError
              /\ tasks[t].reply.responses[i].content = EmptyText
        /\ tasks[t].failedSet = Range(tasks[t].models)

\* C3: the N calls of a round are all issued before any is awaited, the round
\* returns only when every one of them has settled, and a call that settles,
\* with a success or a failure, leaves the other calls as they are
C3_AllSettledBeforeReturn ==
    [][\A t \in TaskIds :
          /\ tasks'[t].pc = "round" /\ (tasks[t].pc # "round" \/ tasks[t].round # tasks'[t].round)
                => /\ Len(tasks'[t].calls) = Len(tasks'[t].models)
                   /\ \A i \in 1..Len(tasks'[t].calls) :
                         tasks'[t].calls[i].label = tasks'[t].models[i]
          /\ roundLeaves(t) => pendingCalls(tasks[t]) = {}
          /\ tasks[t].pc = "round" /\ ~roundLeaves(t)
                => /\ Len(tasks'[t].calls) = Len(tasks[t].calls)
                   /\ Cardinality({i \in 1..Len(tasks[t].calls) :
                                      tasks'[t].calls[i] # tasks[t].calls[i]}) <= 1
                   /\ \A i \in 1..Len(tasks[t].calls) :
                         i \notin pendingCalls(tasks[t]) => tasks'[t].calls[i] = tasks[t].calls[i]]_vars
\* a round is still awaited after one of its calls has failed and another succeeded
C3_Witness ==
    \E t \in TaskIds :
        /\ tasks[t].pc = "round"
        /\ \E i, j, k \in 1..Len(tasks[t].calls) :
              /\ tasks[t].calls[i].state = "rejected"
              /\ tasks[t].calls[j].state = "fulfilled"
              /\ tasks[t].calls[k].state = "pending"

-----------------------------------------------------------------------------
(* Properties of runSynthesis (SpecSynth) *)

\* the identifiers runSynthesis may call, in the order it reaches them
callOrder(reg, ids, synthId) ==
    (IF resolveModel(reg, synthId).ok THEN <<synthId>> ELSE <<>>) \o
    SelectSeq(ids, LAMBDA id : id # synthId /\ resolveModel(reg, id).ok)
isPrefix(s, q) == Len(s) <= Len(q) /\ s = SubSeq(q, 1, Len(s))
lastCallFulfilled(task) == Len(task.calls) = 1 /\ task.calls[1].state = "fulfilled"

\* C5: runSynthesis never raises and returns a non-empty text: the text of the
\* call that succeeded, or, when every attempt has failed, the fallback sentence
C5_SynthesisText ==
    \A t \in TaskIds : tasks[t].kind = "synthesis" /\ tasks[t].pc = "done" =>
        /\ tasks[t].reply.type = "text"
        /\ tasks[t].reply.synthesis.len > 0
        /\ IF lastCallFulfilled(tasks[t])
           THEN tasks[t].reply.synthesis = tasks[t].calls[1].value
           ELSE /\ tasks[t].reply.synthesis = FallbackSentence
                /\ tasks[t].called = callOrder(providers, tasks[t].models, tasks[t].synth)
\* runSynthesis has returned the fallback sentence after two calls have failed
C5_Witness ==
    \E t \in TaskIds :
        /\ tasks[t].kind = "synthesis" /\ tasks[t].pc = "done"
        /\ tasks[t].reply.synthesis = FallbackSentence
        /\ Len(tasks[t].called) >= 2

\* C6: runSynthesis calls the synthesizer first and then, only after a failure,
\* the participants one at a time in list order, never an entry equal to the
\* synthesizer, at most one call at a time and none after the first success
C6_SynthesisOrder ==
    [][\A t \in TaskIds :
          /\ tasks'[t].kind = "synthesis" =>
                /\ isPrefix(tasks'[t].called,
                            callOrder(providers, tasks'[t].models, tasks'[t].synth))
                /\ Len(tasks'[t].calls) <= 1
                /\ \A i \in 2..Len(tasks'[t].called) : tasks'[t].called[i] # tasks'[t].synth
          /\ tasks[t].kind = "synthesis" /\ tasks[t].pc = "synth" /\ tasks[t].calls # <<>>
             /\ tasks'[t].called # tasks[t].called
                => /\ tasks'[t].kind = "synthesis"
                   /\ tasks[t].calls[1].state = "rejected"
                   /\ Len(tasks'[t].called) = Len(tasks[t].called) + 1
                   /\ isPrefix(tasks[t].called, tasks'[t].called)
          /\ tasks[t].kind = "synthesis" /\ tasks[t].pc = "synth" /\ lastCallFulfilled(tasks[t])
                => /\ tasks'[t].pc = "done"
                   /\ tasks'[t].called = tasks[t].called
                   /\ tasks'[t].reply.synthesis = tasks[t].calls[1].value]_vars
\* a participant has succeeded after the synthesizer and another participant
\* failed, in a list that names the synthesizer
C6_Witness ==
    \E t \in TaskIds :
        /\ tasks[t].kind = "synthesis" /\ tasks[t].pc = "done"
        /\ lastCallFulfilled(tasks[t])
        /\ Len(tasks[t].called) = 3
        /\ \E i \in 1..Len(tasks[t].models) : tasks[t].models[i] = tasks[t].synth

-----------------------------------------------------------------------------
(* Properties of an interactive session *)

HostId == <<"claude", ":", "host">>
hostEntries(round) == {i \in 1..Len(round) : round[i].modelId = HostId}

\* in this step a brainstorm_respond request for sid arrives and is taken by slot t
respondStep(t, sid) ==
    /\ free(tasks[t]) /\ tasks'[t] # tasks[t]
    /\ tasks'[t].kind = "respond" /\ tasks'[t].sid = sid
\* sid names a session that was created, has not completed and is younger than the TTL
openSession(sid) ==
    /\ sid < nextId
    /\ ~journal[sid].complete
    /\ now - journal[sid].createdAt < SESSION_TTL_MS

\* the request taken by slot t is accepted: it is the next one of its session,
\* appends the host's contribution to the current round and starts the next
\* round, or after the last round the synthesis
acceptedStep(t, sid) ==
    /\ journal'[sid].accepted = journal[sid].accepted + 1
    /\ heap[sid].status = "awaiting_host"
    /\ LET cr == heap[sid].currentRound
           total == heap[sid].totalRounds
       IN  /\ cr = journal[sid].accepted + 1
           /\ cr <= total
           /\ Len(heap'[sid].rounds) = Len(heap[sid].rounds)
           /\ cr \in 1..Len(heap[sid].rounds)
           /\ \A r \in 1..Len(heap[sid].rounds) :
                 IF r = cr
                 THEN /\ Len(heap'[sid].rounds[r]) = Len(heap[sid].rounds[r]) + 1
                      /\ SubSeq(heap'[sid].rounds[r], 1, Len(heap[sid].rounds[r]))
                            = heap[sid].rounds[r]
                      /\ heap'[sid].rounds[r][Len(heap'[sid].rounds[r])].modelId = HostId
                      /\ heap'[sid].rounds[r][Len(heap'[sid].rounds[r])].round = cr
                 ELSE heap'[sid].rounds[r] = heap[sid].rounds[r]
           /\ IF cr < total
              THEN /\ tasks'[t].pc = "round"
                   /\ tasks'[t].round = cr + 1
                   /\ Len(tasks'[t].calls) = Len(heap[sid].modelIdentifiers)
              ELSE tasks'[t].pc = "synth"
\* the round a brainstorm_respond request has run is appended to the transcript
\* and becomes the current round
roundStored(t) ==
    tasks[t].kind = "respond" /\ roundLeaves(t) /\ inStore(store, tasks[t].sid) =>
        LET sid == tasks[t].sid IN
        /\ tasks'[t].reply.type = "round"
        /\ heap'[sid].currentRound = heap[sid].currentRound + 1
        /\ heap'[sid].currentRound = journal[sid].accepted + 1
        /\ heap'[sid].rounds = Append(heap[sid].rounds, tasks'[t].reply.responses)
        /\ Len(tasks'[t].reply.responses) = Len(heap[sid].modelIdentifiers)
\* the last request of a session returns the Debate Result and removes the session
completes(t) ==
    tasks[t].kind = "respond" /\ tasks[t].pc = "synth" /\ tasks'[t].pc = "done" =>
        LET sid == tasks[t].sid
            res == tasks'[t].reply
            ids == tasks[t].models
        IN  /\ res.type = "result"
            /\ res.synthesis.len > 0
            /\ journal[sid].accepted = tasks[t].totalRounds
            /\ journal'[sid].complete
            /\ ~inStore(store', sid)
            /\ Len(res.rounds) = tasks[t].totalRounds
            /\ \A r \in 1..Len(res.rounds) :
                  /\ Len(res.rounds[r]) = Len(ids) + 1
                  /\ \A i \in 1..Len(ids) : res.rounds[r][i].modelId = ids[i]
                  /\ res.rounds[r][Len(ids) + 1].modelId = HostId

\* C7 as stated: when the requests of a session are serialized and arrive within
\* the TTL, every request for a created, uncompleted session is accepted, request
\* k acting on round k, and the T-th returns the result of T rounds of N + 1
\* responses (the N external ones, then the host's) and removes the session
C7_AsStated ==
    [][\A t \in TaskIds :
          /\ \A sid \in 1..MaxSessions :
                respondStep(t, sid) /\ openSession(sid) => acceptedStep(t, sid)
          /\ roundStored(t)
          /\ completes(t)]_vars
\* C7, amended: the same for a session that no createSession has evicted to make room
C7_SerializedSession ==
    [][\A t \in TaskIds :
          /\ \A sid \in 1..MaxSessions :
                respondStep(t, sid) /\ openSession(sid) /\ ~journal[sid].evicted
                    => acceptedStep(t, sid)
          /\ roundStored(t)
          /\ completes(t)]_vars
\* a session of two rounds has completed on its second accepted request
C7_Witness ==
    \E t \in TaskIds :
        /\ tasks[t].reply.type = "result"
        /\ Len(tasks[t].reply.rounds) = 2
        /\ journal[tasks[t].sid].accepted = 2
        /\ journal[tasks[t].sid].complete

\* section `section` of a history shows a contribution of the host
hasHostLine(section) ==
    \E i \in 1..Len(section.lines) :
        /\ section.lines[i].modelId = HostId
        /\ ~section.lines[i].failed
        /\ section.lines[i].content.tok = "host"

\* C8: the prompt of round r + 1 of an interactive session shows the host's
\* contribution to each of the rounds 1..r, the one just submitted included, and
\* the synthesis prompt shows the host's contributions to all rounds 1..T
C8_PromptShowsHost ==
    \A t \in TaskIds : tasks[t].kind = "respond" =>
        \A c \in 1..Len(tasks[t].calls) :
            LET user == tasks[t].calls[c].user IN
            /\ user.kind \in {"refine", "synthesize"}
            /\ user.kind = "refine" =>
                  /\ user.round = tasks[t].round
                  /\ Len(user.history) >= user.round - 1
                  /\ \A r \in 1..(user.round - 1) :
                        user.history[r].header = r /\ hasHostLine(user.history[r])
            /\ user.kind = "synthesize" =>
                  /\ Len(user.history) >= tasks[t].totalRounds
                  /\ \A r \in 1..tasks[t].totalRounds :
                        user.history[r].header = r /\ hasHostLine(user.history[r])
\* the synthesis call of a session of two rounds is in flight
C8_Witness ==
    \E t \in TaskIds :
        /\ tasks[t].kind = "respond" /\ tasks[t].pc = "synth"
        /\ tasks[t].totalRounds = 2
        /\ pendingCalls(tasks[t]) # {}
        /\ hasHostLine(tasks[t].calls[1].user.history[2])

\* C9: a brainstorm_respond request for a session that has completed, or for an
\* id that was never created, is answered with the not-found error, leaves the
\* store and the sessions as they are and issues no backend call
C9_NotFound ==
    [][\A t \in TaskIds, sid \in 1..MaxSessions :
          respondStep(t, sid) /\ (sid >= nextId \/ journal[sid].complete) =>
              /\ tasks'[t].pc = "done"
              /\ tasks'[t].reply.type = "error"
              /\ tasks'[t].reply.error = "SessionNotFound"
              /\ tasks'[t].calls = <<>>
              /\ \A u \in TaskIds \ {t} : tasks'[u] = tasks[u]
              /\ store' = store
              /\ heap' = heap
              /\ clientCache' = clientCache]_vars
\* a request for a completed session has been answered with the not-found error
C9_Witness ==
    \E t \in TaskIds :
        /\ tasks[t].kind = "respond" /\ tasks[t].pc = "done"
        /\ tasks[t].reply.error = "SessionNotFound"
        /\ journal[tasks[t].sid].complete

\* the transcript the activation works on
transcript(task) == IF task.kind = "debate" THEN task.allRounds ELSE heap[task.sid].rounds

\* C4: in both workflows the rounds of a debate run in sequence: the calls of
\* round r + 1 exist only when the transcript holds the rounds 1..r (in a session
\* with the host's contribution to each) and no call of an earlier round of the
\* debate is unsettled, and the synthesis call only when the transcript holds
\* every round and no round call of the debate is unsettled
C4_RoundsInSequence ==
    \A t \in TaskIds : tasks[t].kind \in {"respond", "debate"} /\ tasks[t].pc \in {"round", "synth"} =>
        LET before == IF tasks[t].pc = "round" THEN tasks[t].round - 1 ELSE tasks[t].totalRounds
        IN  /\ Len(transcript(tasks[t])) >= before
            /\ \A r \in 1..before :
                  /\ Len(transcript(tasks[t])[r]) >= Len(tasks[t].models)
                  /\ tasks[t].kind = "respond" => hostEntries(transcript(tasks[t])[r]) # {}
            /\ \A u \in TaskIds \ {t} :
                  /\ tasks[u].kind = "respond" /\ tasks[t].kind = "respond"
                  /\ tasks[u].sid = tasks[t].sid
                  /\ tasks[u].pc = "round" /\ pendingCalls(tasks[u]) # {}
                  => /\ tasks[t].pc # "synth"
                     /\ tasks[t].round <= tasks[u].round

\* C10: overlapping brainstorm_respond requests for one session: only the first
\* host contribution is recorded for the round and only one next round is
\* appended, so that each round holds at most one host contribution and, once
\* the requests have returned, the transcript is as long as currentRound
C10_FirstWriterWins ==
    \A sid \in 1..Len(heap) : heap[sid].status # "collected" =>
        /\ \A r \in 1..Len(heap[sid].rounds) :
              Cardinality(hostEntries(heap[sid].rounds[r])) <= 1
        /\ (\A t \in TaskIds : ~holds(tasks[t], sid))
              => Len(heap[sid].rounds) = heap[sid].currentRound

-----------------------------------------------------------------------------
(* Properties of identifier resolution (SpecRounds) *)

resolving(ids) == {i \in 1..Len(ids) : resolveModel(providers, ids[i]).ok}
unresolved(ids) == (1..Len(ids)) \ resolving(ids)

\* C11: when an identifier of a round's list does not resolve, the other models
\* are still called and the round returns one response per identifier, the one
\* of the unresolvable identifier being a failed response
C11_ResolutionContained ==
    \A t \in TaskIds :
        /\ tasks[t].kind \in {"brainstorm", "debate"}
        /\ unresolved(tasks[t].models) # {} /\ resolving(tasks[t].models) # {}
        => /\ tasks[t].reply.type # "failed"
           /\ tasks[t].pc = "round" => Len(tasks[t].calls) = Len(tasks[t].models)
           /\ tasks[t].reply.type = "round" =>
                 /\ Len(tasks[t].reply.responses) = Len(tasks[t].models)
                 /\ \A i \in unresolved(tasks[t].models) :
                       tasks[t].reply.responses[i].error # NoError

\* C12: runDebate raises only when none of the debate's identifiers resolves:
\* when at least one resolves it returns a Debate Result, whatever the
\* synthesizer identifier is
C12_DebateReturns ==
    \A t \in TaskIds :
        tasks[t].kind = "debate" /\ tasks[t].pc = "done" /\ Len(tasks[t].models) >= 2 =>
            IF resolving(tasks[t].models) # {}
            THEN tasks[t].reply.type = "result"
            ELSE tasks[t].reply.type = "failed"

-----------------------------------------------------------------------------
(* Properties of the failed set (SpecRounds) *)

\* the identifiers that have an error response in some round of a transcript
erring(rounds) ==
    UNION {{rounds[r][i].modelId :
               i \in {j \in 1..Len(rounds[r]) : rounds[r][j].error # NoError}} :
           r \in 1..Len(rounds)}

\* C13: in both workflows the failed set only grows, and modelsFailed of a Debate
\* Result is exactly the set of the identifiers that have an error response in
\* at least one round; it never contains the host
C13_FailedSetGrows ==
    [][/\ \A t \in TaskIds :
             /\ tasks[t].kind = "debate" /\ ~free(tasks[t])
                   => tasks[t].failedSet \subseteq tasks'[t].failedSet
             /\ tasks'[t].reply.type = "result"
                   => /\ tasks'[t].reply.modelsFailed = erring(tasks'[t].reply.rounds)
                      /\ HostId \notin tasks'[t].reply.modelsFailed
                      /\ tasks'[t].reply.modelsFailed \subseteq Range(tasks'[t].models)
       /\ \A sid \in 1..Len(heap) :
             heap[sid].status # "collected" /\ heap'[sid].status # "collected"
                 => heap[sid].failedModels \subseteq heap'[sid].failedModels]_vars
\* a Debate Result lists as failed a model that failed in round 1 and answered
\* in round 2
C13_Witness ==
    \E t \in TaskIds :
        /\ tasks[t].reply.type = "result"
        /\ Len(tasks[t].reply.rounds) = 2
        /\ \E i \in 1..Len(tasks[t].models) :
              /\ tasks[t].reply.rounds[1][i].error # NoError
              /\ tasks[t].reply.rounds[2][i].error = NoError
              /\ tasks[t].models[i] \in tasks[t].reply.modelsFailed

-----------------------------------------------------------------------------
(* Properties of the transcript (SpecRounds: the requests of a session serialized) *)

\* round i of the transcript holds only responses that carry the number i
numbered(rounds) ==
    \A i \in 1..Len(rounds) : \A j \in 1..Len(rounds[i]) : rounds[i][j].round = i
\* the transcript `after` is `before` with rounds appended and stored rounds at
\* most extended by one contribution of the host at their end
extends(before, after) ==
    /\ Len(after) >= Len(before)
    /\ \A r \in 1..Len(before) :
          \/ after[r] = before[r]
          \/ /\ Len(after[r]) = Len(before[r]) + 1
             /\ SubSeq(after[r], 1, Len(before[r])) = before[r]
             /\ after[r][Len(after[r])].modelId = HostId

\* C14: with the requests of a session serialized, the transcript of a session,
\* and the one runDebate builds, always holds the rounds 1..k without gaps, round
\* i holding only responses numbered i; a session stores as many rounds as
\* currentRound says; and a stored round only ever grows by the host's
\* contribution appended to it
C14_TranscriptAppendOnly ==
    [][/\ \A sid \in 1..Len(heap') : heap'[sid].status # "collected" =>
             /\ numbered(heap'[sid].rounds)
             /\ Len(heap'[sid].rounds) = heap'[sid].currentRound
             /\ sid <= Len(heap) /\ heap[sid].status # "collected"
                   => extends(heap[sid].rounds, heap'[sid].rounds)
       /\ \A t \in TaskIds : tasks'[t].kind = "debate" =>
             /\ numbered(tasks'[t].allRounds)
             /\ tasks[t].kind = "debate" /\ ~free(tasks[t])
                   => /\ Len(tasks'[t].allRounds) >= Len(tasks[t].allRounds)
                      /\ SubSeq(tasks'[t].allRounds, 1, Len(tasks[t].allRounds))
                            = tasks[t].allRounds]_vars
\* a session holds two rounds, the first with the host's contribution at its end
C14_Witness ==
    \E sid \in 1..Len(heap) :
        /\ inStore(store, sid)
        /\ Len(heap[sid].rounds) = 2
        /\ heap[sid].rounds[1][Len(heap[sid].rounds[1])].modelId = HostId
        /\ hostEntries(heap[sid].rounds[2]) = {}

-----------------------------------------------------------------------------
(* Properties of the round counter and of the status (Spec: overlap included) *)

\* C15: every session in the store has 1 <= currentRound <= totalRounds, whatever
\* brainstorm and brainstorm_respond calls were made, overlapping ones included
C15_RoundInRange ==
    \A sid \in 1..Len(heap) : inStore(store, sid) =>
        /\ 1 <= heap[sid].currentRound
        /\ heap[sid].currentRound <= heap[sid].totalRounds
\* two overlapping calls have both stored a round 2 in a session of two rounds
C15_Witness ==
    \E sid \in 1..Len(heap) :
        /\ inStore(store, sid)
        /\ heap[sid].totalRounds = 2
        /\ heap[sid].currentRound = 2
        /\ Len(heap[sid].rounds) = 3

\* C16: a session whose status is complete is never in the store, so no request
\* ever looks one up: the status becomes complete in the step that deletes the
\* session, and no call is answered that the session is already complete
C16_CompleteNotRetrievable ==
    /\ \A sid \in 1..Len(heap) : inStore(store, sid) => heap[sid].status # "complete"
    /\ \A t \in TaskIds : tasks[t].reply.error # "SessionComplete"
\* a session has been completed and deleted while another call still holds it
C16_Witness ==
    \E sid \in 1..Len(heap) :
        /\ heap[sid].status = "complete"
        /\ ~inStore(store, sid)
        /\ journal[sid].complete
        /\ \E t \in TaskIds : holds(tasks[t], sid)

-----------------------------------------------------------------------------
(* Properties of the session a brainstorm call creates (SpecRounds) *)

\* the interactive brainstorm call of slot t returns its round 1 in this step
brainstormReturns(t) ==
    /\ tasks[t].kind = "brainstorm" /\ tasks[t].pc = "round"
    /\ tasks'[t].pc = "done" /\ tasks'[t].reply.type = "round"

\* C17: when an interactive brainstorm call with N models succeeds, the store holds
\* one new session with currentRound = 1, a transcript of exactly one round with
\* the N external responses of round 1, a failed set equal to the failures of
\* round 1 and the status awaiting_host; and no session in the store ever has
\* currentRound = 0 or an empty transcript
C17_SessionSeeded ==
    [][/\ \A t \in TaskIds : brainstormReturns(t) =>
             LET sid == tasks'[t].reply.sid
                 ids == tasks[t].models
                 session == heap'[sid]
             IN  /\ sid = nextId /\ nextId' = nextId + 1
                 /\ ~inStore(store, sid) /\ inStore(store', sid)
                 /\ \A id \in 1..Len(heap') : inStore(store', id) /\ id # sid => inStore(store, id)
                 /\ session.id = sid
                 /\ session.currentRound = 1
                 /\ Len(session.rounds) = 1
                 /\ Len(session.rounds[1]) = Len(ids)
                 /\ session.rounds[1] = tasks'[t].reply.responses
                 /\ \A i \in 1..Len(ids) :
                       /\ session.rounds[1][i].modelId = ids[i]
                       /\ session.rounds[1][i].round = 1
                 /\ session.failedModels = {ids[i] : i \in failedCalls(tasks[t])}
                 /\ session.status = "awaiting_host"
       /\ \A sid \in 1..Len(heap') : inStore(store', sid) =>
             /\ heap'[sid].currentRound # 0
             /\ heap'[sid].rounds # <<>>]_vars
\* a brainstorm call with three models has returned and its session holds a round
\* 1 of three responses and a failed set of two models
C17_Witness ==
    \E t \in TaskIds :
        /\ tasks[t].kind = "brainstorm" /\ tasks[t].reply.type = "round"
        /\ inStore(store, tasks[t].reply.sid)
        /\ Len(heap[tasks[t].reply.sid].rounds) = 1
        /\ Len(heap[tasks[t].reply.sid].rounds[1]) = 3
        /\ Cardinality(heap[tasks[t].reply.sid].failedModels) = 2

-----------------------------------------------------------------------------
(* Properties of the synthesis of a session (Spec: overlap included) *)

\* the activations that have run the synthesis step for the session sid: those
\* awaiting a synthesis call and those that have returned a Debate Result
synthesizing(sid) ==
    {t \in TaskIds : /\ tasks[t].kind = "respond" /\ tasks[t].sid = sid
                     /\ \/ tasks[t].pc = "synth"
                        \/ tasks[t].pc = "done" /\ tasks[t].reply.type = "result"}

\* C18: for each session the synthesis step runs at most once and at most one
\* Debate Result is produced, also when brainstorm_respond calls for the final
\* round of the session overlap
C18_SynthesisOnce ==
    \A sid \in 1..MaxSessions : Cardinality(synthesizing(sid)) <= 1

-----------------------------------------------------------------------------
(* Properties of the session store (SpecStore) *)

\* C19: the store never holds more than 50 sessions, whatever sequence of create,
\* get and delete is made and however time passes
C19_StoreBounded ==
    /\ Len(store) <= MAX_SESSIONS
    /\ Cardinality(Range(store)) = Len(store)
\* the store is full after more than 50 sessions have been created
C19_Witness ==
    /\ Len(store) = MAX_SESSIONS
    /\ nextId > MAX_SESSIONS + 2

\* the ids of the stored sessions that are older than the TTL at time t
overdue(st, hp, t) == {id \in Range(st) : t - hp[id].createdAt > SESSION_TTL_MS}

\* C20: a create removes every session older than the TTL; if 50 sessions still
\* remain it removes exactly one more, one of the smallest creation time among
\* those remaining; otherwise it removes no session within its TTL. So a create
\* on a full store with an expired session removes expired sessions only
C20_EvictionPolicy ==
    [][nextId' = nextId + 1 =>
          LET removed == Range(store) \ Range(store')
              swept == overdue(store, heap, now)
              remaining == Range(store) \ swept
          IN  /\ Range(store') \ Range(store) = {nextId}
              /\ swept \subseteq removed
              /\ IF Cardinality(remaining) >= MAX_SESSIONS
                 THEN \E id \in remaining :
                          /\ removed = swept \cup {id}
                          /\ \A other \in remaining :
                                heap[id].createdAt <= heap[other].createdAt
                 ELSE removed = swept
              /\ Len(store) = MAX_SESSIONS /\ swept # {} => removed = swept]_vars
\* the store was full with session 1 expired (sessions 1..50 were all created
\* before any could expire, and the two that get and delete can remove are still
\* there); the create of session 51 has removed session 1 and kept the other 49
C20_Witness ==
    /\ now = SESSION_TTL_MS + 1
    /\ nextId = MAX_SESSIONS + 2
    /\ Len(store) = MAX_SESSIONS
    /\ store[1] = 2 /\ heap[2].createdAt = 1
    /\ store[MAX_SESSIONS] = MAX_SESSIONS + 1
    /\ heap[MAX_SESSIONS + 1].createdAt = SESSION_TTL_MS + 1
    /\ heap[MAX_SESSIONS].createdAt = 1
    /\ \A id \in StoreKeys : inStore(store, id)

-----------------------------------------------------------------------------
(* Properties of getSession, seen through brainstorm_respond (Spec) *)

\* getSession(sid) has returned the session to the request slot t has taken
returned(t) == tasks'[t].reply.error # "SessionNotFound"

\* C21, as stated: get returns the session exactly when it is in the store and
\* its age is less than 10 minutes; at an age of 10 minutes or more it signals
\* absence and removes the session from the store
C21_AsStated ==
    [][\A t \in TaskIds, sid \in 1..MaxSessions : respondStep(t, sid) /\ sid < nextId =>
          LET age == now - journal[sid].createdAt
          IN  /\ returned(t) <=> inStore(store, sid) /\ age < SESSION_TTL_MS
              /\ age >= SESSION_TTL_MS => ~inStore(store', sid)]_vars
\* C21, amended: get returns the session exactly when it is in the store and its
\* age is at most 10 minutes; at an age of more than 10 minutes it signals absence
\* and removes the session from the store, and otherwise the store is unchanged
C21_GetWithinTTL ==
    [][\A t \in TaskIds, sid \in 1..MaxSessions : respondStep(t, sid) /\ sid < nextId =>
          LET age == now - journal[sid].createdAt
          IN  /\ returned(t) <=> inStore(store, sid) /\ age <= SESSION_TTL_MS
              /\ age > SESSION_TTL_MS => ~inStore(store', sid)
              /\ age <= SESSION_TTL_MS => store' = store]_vars
\* a request was accepted for a session exactly 10 minutes after its creation
C21_Witness ==
    \E sid \in 1..MaxSessions :
        /\ journal[sid].accepted >= 1
        /\ journal[sid].acceptedAt - journal[sid].createdAt = SESSION_TTL_MS

-----------------------------------------------------------------------------
(* Properties of the store's contract (SpecStore) *)

\* the session id was created and is not older than the TTL
withinTTL(id) == id < nextId /\ now - journal[id].createdAt <= SESSION_TTL_MS

\* C22, as stated: a session that was created is reachable through get if and
\* only if it is within its TTL and has not been explicitly deleted
C22_AsStated ==
    \A id \in 1..(nextId - 1) :
        getSessionFound(store, heap, now, id) <=> withinTTL(id) /\ ~journal[id].deleted
\* C22, amended: a session that was created is reachable through get if and only
\* if it is within its TTL, has not been explicitly deleted and has not been
\* evicted by a create that found the store full
C22_Reachable ==
    \A id \in 1..(nextId - 1) :
        getSessionFound(store, heap, now, id)
            <=> withinTTL(id) /\ ~journal[id].deleted /\ ~journal[id].evicted
\* of the sessions created, one was evicted within its TTL, one was deleted, and
\* one is reachable at the age of exactly the TTL
C22_Witness ==
    /\ \E id \in 1..(nextId - 1) : withinTTL(id) /\ journal[id].evicted
    /\ \E id \in 1..(nextId - 1) : withinTTL(id) /\ journal[id].deleted
    /\ \E id \in 1..(nextId - 1) :
          /\ getSessionFound(store, heap, now, id)
          /\ now - journal[id].createdAt = SESSION_TTL_MS

\* C23: create returns a session whose id differs from the id of every session in
\* the store, with currentRound 0, an empty transcript, an empty failed set, a
\* processed-character count of 0 and the status awaiting_host, and get returns
\* that session immediately afterwards
C23_CreateFresh ==
    [][nextId' = nextId + 1 =>
          LET session == heap'[nextId]
          IN  /\ Len(heap') = nextId
              /\ session.id = nextId
              /\ \A id \in Range(store) : heap[id].id # session.id
              /\ \A i \in 1..Len(store') : store'[i] = session.id <=> i = Len(store')
              /\ session.currentRound = 0
              /\ session.rounds = <<>>
              /\ session.failedModels = {}
              /\ session.totalCharsProcessed = 0
              /\ session.status = "awaiting_host"
              /\ getSessionFound(store', heap', now', session.id)]_vars
\* the 51st session was created after the TTL of the first ones had passed and
\* is in the store as created
C23_Witness ==
    /\ nextId = MAX_SESSIONS + 2
    /\ now = SESSION_TTL_MS + 1
    /\ inStore(store, MAX_SESSIONS + 1)
    /\ heap[MAX_SESSIONS + 1].createdAt = SESSION_TTL_MS + 1
    /\ heap[MAX_SESSIONS + 1].currentRound = 0
    /\ heap[MAX_SESSIONS + 1].rounds = <<>>
    /\ getSessionFound(store, heap, now, MAX_SESSIONS + 1)

-----------------------------------------------------------------------------
(* Properties of buildHistoryContext (SpecHistory) *)

\* the transcript runSynthesis was called with and the block it put in its prompt
compacted(t) == tasks[t].kind = "synthesis" /\ tasks[t].calls # <<>>
given(t) == tasks[t].allRounds
block(t) == tasks[t].calls[1].user.history

\* the responses of a transcript, the characters of their contents, and the
\* content characters a block renders
responseCount(rounds) == SumSeq([r \in 1..Len(rounds) |-> Len(rounds[r])])
contentSum(rounds) ==
    SumSeq([r \in 1..Len(rounds) |->
               SumSeq([j \in 1..Len(rounds[r]) |-> rounds[r][j].content.len])])
renderedSum(sections) ==
    SumSeq([r \in 1..Len(sections) |->
               SumSeq([j \in 1..Len(sections[r].lines) |-> sections[r].lines[j].content.len])])
\* the block has a section per round and a line per response, in stored order
aligned(rounds, sections) ==
    /\ Len(sections) = Len(rounds)
    /\ \A r \in 1..Len(rounds) : Len(sections[r].lines) = Len(rounds[r])

\* C24: when the contents of a transcript sum to more than the budget B, with R
\* the number of its responses, failed ones included, every successful response
\* longer than B \div R is rendered as its first B \div R characters followed by
\* the truncation marker and every shorter one in full without the marker; no
\* response contributes more than B \div R content characters and the rendered
\* content characters sum to at most B
C24_ShareUnderOverflow ==
    \A t \in TaskIds : compacted(t) /\ contentSum(given(t)) > MAX_CONTEXT_CHARS =>
        LET share == MAX_CONTEXT_CHARS \div responseCount(given(t))
        IN  /\ aligned(given(t), block(t))
            /\ \A r \in 1..Len(given(t)) : \A j \in 1..Len(given(t)[r]) :
                  LET resp == given(t)[r][j]
                      line == block(t)[r].lines[j]
                  IN  /\ line.content.len <= share
                      /\ resp.error = NoError =>
                            /\ ~line.failed
                            /\ line.content.tok = resp.content.tok
                            /\ IF resp.content.len > share
                               THEN line.content.len = share /\ line.truncated
                               ELSE line.content.len = resp.content.len /\ ~line.truncated
            /\ renderedSum(block(t)) <= MAX_CONTEXT_CHARS
\* a transcript of seven responses over the budget: one failed, one cut to the
\* share of 1714 characters, one of exactly that length rendered in full
C24_Witness ==
    \E t \in TaskIds :
        /\ compacted(t) /\ contentSum(given(t)) > MAX_CONTEXT_CHARS
        /\ responseCount(given(t)) = 7
        /\ \E r \in 1..Len(block(t)) : \E i, j, k \in 1..Len(block(t)[r].lines) :
              /\ block(t)[r].lines[i].failed
              /\ block(t)[r].lines[j].truncated /\ block(t)[r].lines[j].content.len = 1714
              /\ ~block(t)[r].lines[k].truncated /\ given(t)[r][k].content.len = 1714

\* C25: when the contents of a transcript sum to at most the budget, equality
\* included, every successful response is rendered in full without the
\* truncation marker, under the header of its round, in round order and in
\* stored order within the round, tagged with its model identifier
C25_FullWithinBudget ==
    \A t \in TaskIds : compacted(t) /\ contentSum(given(t)) <= MAX_CONTEXT_CHARS =>
        /\ aligned(given(t), block(t))
        /\ \A r \in 1..Len(given(t)) :
              /\ block(t)[r].header = r
              /\ \A j \in 1..Len(given(t)[r]) :
                    LET resp == given(t)[r][j]
                        line == block(t)[r].lines[j]
                    IN  /\ line.modelId = resp.modelId
                        /\ resp.error = NoError =>
                              /\ ~line.failed
                              /\ line.content = resp.content
                              /\ ~line.truncated
\* a transcript exactly at the budget, of two contents of 5999 and 6001
\* characters, is rendered in full
C25_Witness ==
    \E t \in TaskIds :
        /\ compacted(t) /\ contentSum(given(t)) = MAX_CONTEXT_CHARS
        /\ responseCount(given(t)) = 2
        /\ \E j \in 1..2 : given(t)[1][j].content.len = 6001 /\ block(t)[1].lines[j].content.len = 6001

\* C26, as stated: the block is never longer than the budget
C26_AsStated ==
    \A t \in TaskIds : compacted(t) => blockChars(block(t)) <= MAX_CONTEXT_CHARS
\* C26, amended: the content characters of the responses rendered in the block
\* never sum to more than the budget; the block is those plus its prefix, headers,
\* tags, truncation markers and error texts
C26_ContentWithinBudget ==
    \A t \in TaskIds : compacted(t) =>
        /\ renderedSum(block(t)) <= MAX_CONTEXT_CHARS
        /\ blockChars(block(t)) >= renderedSum(block(t)) + 28
\* a block longer than the budget whose content characters are within it
C26_Witness ==
    \E t \in TaskIds :
        /\ compacted(t)
        /\ contentSum(given(t)) > MAX_CONTEXT_CHARS
        /\ renderedSum(block(t)) <= MAX_CONTEXT_CHARS
        /\ blockChars(block(t)) > MAX_CONTEXT_CHARS

-----------------------------------------------------------------------------
(* Properties of the shape of a response (SpecOutcomes) *)

\* a success: non-empty content and no error; a failure: empty content and a
\* non-empty error text
isSuccess(resp) == resp.content.len > 0 /\ resp.error = NoError
isFailure(resp) ==
    /\ resp.content.len = 0
    /\ resp.error # NoError
    /\ ~(resp.error.kind = "raw" /\ resp.error.arg = <<>>)

\* C27: every response of a round or of a host turn is a success or a failure,
\* whatever the backend did, and the history shows a response as a failure
\* marker with its stored error text exactly when the response is a failure
C27_ResponseShapes ==
    /\ \A t \in TaskIds : \A i \in 1..Len(tasks[t].reply.responses) :
          isSuccess(tasks[t].reply.responses[i]) \/ isFailure(tasks[t].reply.responses[i])
    /\ \A sid \in 1..Len(heap) : \A r \in 1..Len(heap[sid].rounds) :
          \A j \in 1..Len(heap[sid].rounds[r]) :
              isSuccess(heap[sid].rounds[r][j]) \/ isFailure(heap[sid].rounds[r][j])
    /\ \A t \in TaskIds : tasks[t].kind = "respond" /\ ~free(tasks[t]) =>
          \A c \in 1..Len(tasks[t].calls) :
              LET sections == tasks[t].calls[c].user.history
                  rounds == heap[tasks[t].sid].rounds
              IN  \A r \in 1..Len(sections) : \A j \in 1..Len(sections[r].lines) :
                      /\ sections[r].lines[j].failed <=> rounds[r][j].content.len = 0
                      /\ sections[r].lines[j].failed =>
                            sections[r].lines[j].error = rounds[r][j].error

-----------------------------------------------------------------------------
(* Properties of resolveModel (SpecResolve) *)

\* in this step slot t takes a call of resolveModel
resolveStep(t) == free(tasks[t]) /\ tasks'[t] # tasks[t] /\ tasks'[t].kind = "resolve"
hasColon(id) == \E i \in 1..Len(id) : id[i] = ":"
firstColon(id) == CHOOSE i \in 1..Len(id) : id[i] = ":" /\ \A j \in 1..(i - 1) : id[j] # ":"
providerPart(id) == SubSeq(id, 1, firstColon(id) - 1)
modelPart(id) == SubSeq(id, firstColon(id) + 1, Len(id))
registered(name) == \E i \in 1..Len(providers) : providers[i].name = name

\* C28: resolveModel succeeds if and only if the identifier has a colon, the part
\* after the first colon is non-empty and the part before it is a registered
\* provider; it then returns that provider's endpoint and credential reference
\* and the model part unchanged; otherwise it fails as an invalid identifier (no
\* colon, or empty model part) or as an unknown provider; the registry is never
\* changed
C28_Resolution ==
    [][\A t \in TaskIds : resolveStep(t) =>
          LET id == tasks'[t].synth
              res == tasks'[t].synthModel
              valid == hasColon(id) /\ modelPart(id) # <<>>
          IN  /\ res.ok <=> valid /\ registered(providerPart(id))
              /\ res.ok =>
                    /\ res.provider = providerPart(id)
                    /\ res.modelId = modelPart(id)
                    /\ \E i \in 1..Len(providers) :
                          /\ providers[i].name = providerPart(id)
                          /\ res.baseURL = providers[i].baseURL
                          /\ res.apiKeyEnvVar = providers[i].apiKeyEnvVar
              /\ ~res.ok =>
                    IF valid THEN res.kind = "UnknownProvider"
                    ELSE res.kind \in {"InvalidFormat", "NoModel"}
              /\ providers' = providers]_vars
\* with the providers "x" and "x:" both added at run time, "x::" was resolved to
\* the provider x and the model ":"
C28_Witness ==
    \E t \in TaskIds :
        /\ tasks[t].kind = "resolve" /\ tasks[t].synthModel.ok
        /\ tasks[t].synth = <<"x", ":", ":">>
        /\ tasks[t].synthModel.provider = <<"x">>
        /\ tasks[t].synthModel.modelId = <<":">>
        /\ registered(<<"x", ":">>)

\* C29: every failure of resolveModel (no colon, empty model portion, unknown
\* provider) carries the names of the providers registered at that moment
C29_ErrorsListProviders ==
    [][\A t \in TaskIds : resolveStep(t) /\ ~tasks'[t].synthModel.ok =>
          tasks'[t].synthModel.available = [i \in 1..Len(providers) |-> providers[i].name]]_vars

-----------------------------------------------------------------------------
(* Properties of a backend call (SpecSynthTimed) *)

\* slot t is in the same await before and after this step
sameAwait(t) ==
    /\ tasks'[t].pc = tasks[t].pc
    /\ tasks'[t].called = tasks[t].called
    /\ Len(tasks'[t].calls) = Len(tasks[t].calls)
inFlight(t) == tasks[t].calls # <<>> /\ tasks[t].calls[1].state = "pending"

\* C30: every backend call settles: it returns non-empty text, or it fails with
\* the empty-response error, the timeout or the backend's own error; a call in
\* flight at its deadline is aborted and fails with the timeout; and a call that
\* has settled keeps its outcome, whatever timer fires later
C30_CallsSettle ==
    /\ [][\A t \in TaskIds : sameAwait(t) =>
             \A i \in 1..Len(tasks[t].calls) :
                 LET before == tasks[t].calls[i]
                     after == tasks'[t].calls[i]
                 IN  IF before.state = "pending"
                     THEN \/ after = before
                          \/ after.state = "fulfilled" /\ after.value.len > 0
                          \/ /\ after.state = "rejected"
                             /\ after.reason.kind \in {"EmptyResponse", "Timeout", "raw"}
                     ELSE after = before]_vars
    /\ \A t \in TaskIds : inFlight(t) ~> ~inFlight(t)
\* a call has failed with the timeout
C30_Witness ==
    \E t \in TaskIds :
        /\ tasks[t].calls # <<>>
        /\ tasks[t].calls[1].state = "rejected"
        /\ tasks[t].calls[1].reason.kind = "Timeout"

-----------------------------------------------------------------------------
(* Termination and the number of calls (SpecSettling) *)

\* the handler of activation t is at an await
awaiting(t, kind) == tasks[t].kind = kind /\ tasks[t].pc \in {"round", "synth"}
\* the participant entries different from the synthesizer
others(task) == {i \in 1..Len(task.models) : task.models[i] # task.synth}

\* C31: when every call settles and every identifier resolves, runDebate with R
\* rounds and N models issues N calls in each of the rounds 1..R in turn, then the
\* synthesis calls, the synthesizer first and at most one per participant entry
\* different from it, and returns a Debate Result; an accepted brainstorm_respond
\* returns a round result or a Debate Result
C31_Terminates ==
    /\ [][\A t \in TaskIds :
             /\ tasks'[t].kind = "debate" /\ tasks'[t].pc = "round"
                => /\ Len(tasks'[t].calls) = Len(tasks'[t].models)
                   /\ tasks'[t].round \in 1..tasks'[t].totalRounds
                   /\ tasks[t].pc # "round" => tasks'[t].round = 1
                   /\ tasks[t].pc = "round" =>
                         \/ tasks'[t].round = tasks[t].round
                         \/ /\ tasks'[t].round = tasks[t].round + 1
                            /\ \A i \in 1..Len(tasks[t].calls) : tasks[t].calls[i].state # "pending"
             /\ tasks'[t].kind = "debate" /\ tasks'[t].pc = "synth" /\ tasks[t].pc = "round"
                => /\ tasks[t].round = tasks[t].totalRounds
                   /\ tasks'[t].called = <<tasks'[t].synth>>
             /\ tasks'[t].kind = "debate" /\ tasks'[t].pc \in {"synth", "done"}
                /\ tasks[t].pc \in {"round", "synth"}
                => /\ Len(tasks'[t].called) >= 1
                   /\ Len(tasks'[t].called) <= 1 + Cardinality(others(tasks'[t]))
                   /\ \A i \in 2..Len(tasks'[t].called) : tasks'[t].called[i] # tasks'[t].synth
             /\ tasks'[t].kind = "debate" /\ tasks'[t].pc = "done" /\ tasks[t].pc = "synth"
                => /\ tasks'[t].reply.type = "result"
                   /\ Len(tasks'[t].reply.rounds) = tasks'[t].totalRounds
             /\ tasks'[t].kind = "respond" /\ tasks'[t].pc = "done"
                /\ tasks[t].pc \in {"round", "synth"}
                => tasks'[t].reply.type \in {"round", "result"}]_vars
    /\ (\E t \in TaskIds : awaiting(t, "debate") \/ awaiting(t, "respond"))
          ~> (\A t \in TaskIds : ~awaiting(t, "debate") /\ ~awaiting(t, "respond"))
\* a debate of two rounds over three models has returned its result after the
\* synthesizer and a second model failed at the synthesis and a third succeeded
C31_Witness ==
    \E t \in TaskIds :
        /\ tasks[t].kind = "debate" /\ tasks[t].pc = "done" /\ tasks[t].reply.type = "result"
        /\ tasks[t].totalRounds = 2 /\ Len(tasks[t].models) = 3
        /\ Len(tasks[t].reply.rounds) = 2
        /\ Len(tasks[t].called) = 3
        /\ lastCallFulfilled(tasks[t])

-----------------------------------------------------------------------------
(* The Debate Result of runDebate (SpecRounds) *)

\* C32: runDebate with R rounds over N models that resolve returns a result; its
\* transcript has R rounds of N responses each, in the order of the models; when
\* every call succeeded modelsFailed is empty and the synthesis is the text the
\* synthesizer returned (the first model when none was given); a model whose
\* round-1 call failed has an error entry with empty content in round 1 and is
\* in modelsFailed
C32_DebateResult ==
    [][\A t \in TaskIds :
          /\ tasks'[t].kind = "debate" /\ tasks'[t].pc = "done" /\ tasks[t].pc # "done"
             /\ Len(tasks'[t].models) >= 2 /\ allResolve(providers, tasks'[t].models)
             => tasks'[t].reply.type = "result"
          /\ tasks[t].kind = "debate" /\ tasks[t].pc = "round" /\ tasks[t].round = 1
             /\ tasks'[t].allRounds # tasks[t].allRounds
             => /\ Len(tasks'[t].allRounds) = 1
                /\ \A i \in 1..Len(tasks[t].calls) : tasks[t].calls[i].state = "rejected" =>
                      /\ tasks'[t].allRounds[1][i].modelId = tasks[t].models[i]
                      /\ tasks'[t].allRounds[1][i].error = tasks[t].calls[i].reason
                      /\ tasks'[t].allRounds[1][i].error # NoError
                      /\ tasks'[t].allRounds[1][i].content = EmptyText
                      /\ tasks[t].models[i] \in tasks'[t].failedSet
          /\ tasks'[t].kind = "debate" /\ tasks'[t].pc = "done" /\ tasks[t].pc = "synth"
             => /\ tasks'[t].reply.type = "result"
                /\ Len(tasks'[t].reply.rounds) = tasks[t].totalRounds
                /\ \A r \in 1..Len(tasks'[t].reply.rounds) :
                      /\ Len(tasks'[t].reply.rounds[r]) = Len(tasks[t].models)
                      /\ \A i \in 1..Len(tasks[t].models) :
                            /\ tasks'[t].reply.rounds[r][i].modelId = tasks[t].models[i]
                            /\ tasks'[t].reply.rounds[r][i].round = r
                /\ tasks'[t].reply.rounds[1] = tasks[t].allRounds[1]
                /\ \A i \in 1..Len(tasks[t].models) :
                      tasks'[t].reply.rounds[1][i].error # NoError =>
                         /\ tasks'[t].reply.rounds[1][i].content = EmptyText
                         /\ tasks[t].models[i] \in tasks'[t].reply.modelsFailed
                /\ (\A r \in 1..Len(tasks[t].allRounds) : \A i \in 1..Len(tasks[t].allRounds[r]) :
                       tasks[t].allRounds[r][i].error = NoError)
                   => tasks'[t].reply.modelsFailed = {}
                /\ tasks[t].called = <<tasks[t].synth>> /\ tasks[t].calls[1].state = "fulfilled"
                   => tasks'[t].reply.synthesis = tasks[t].calls[1].value
                \* the synthesizer is the one given (of those explored only "l:m"
                \* resolves) or the first model
                /\ tasks[t].called[1] \in {IdLM, tasks[t].models[1]}]_vars

-----------------------------------------------------------------------------
(* The connection pool (SpecProviders) *)

\* the calls of activation t that went out: getClient returned a connection
sent(task) == {i \in 1..Len(task.calls) : task.calls[i].reason.kind # "MissingKey"}
\* the pool holds a connection made for the endpoint and credential of the model
pooledFor(cache, model) ==
    \E c \in cache : c.baseURL = model.baseURL /\ c.apiKeyEnvVar = model.apiKeyEnvVar

\* C33: the pool holds one connection per (endpoint, credential) pair that a call
\* went out with, so that two models share a connection exactly when their pairs
\* are equal; entries are never removed or replaced; a call that fails for its
\* missing credential adds none
C33_PoolPerBackend ==
    [][/\ clientCache \subseteq clientCache'
       /\ \A c, d \in clientCache' : c.key = d.key => c = d
       /\ \A t \in TaskIds : tasks'[t].calls # tasks[t].calls =>
             \A i \in 1..Len(tasks'[t].calls) :
                LET model == resolveModel(providers, tasks'[t].calls[i].label)
                IN  IF i \in sent(tasks'[t])
                    THEN pooledFor(clientCache', model)
                    ELSE pooledFor(clientCache', model) => pooledFor(clientCache, model)]_vars

-----------------------------------------------------------------------------
(* The lifetime of a session (Spec) *)

\* C34: the creation time of a session never changes, whatever is done with the
\* session, and a brainstorm_respond request that arrives more than 10 minutes
\* after the creation of its session is answered with the not-found error,
\* however recently a request for the session was accepted
C34_LifetimeFromCreation ==
    [][/\ \A id \in DOMAIN heap :
             heap[id].status # "collected" /\ heap'[id].status # "collected" =>
                /\ heap'[id].createdAt = heap[id].createdAt
                /\ heap[id].createdAt = journal'[id].createdAt
       /\ \A t \in TaskIds, sid \in 1..MaxSessions :
             respondStep(t, sid) /\ sid < nextId
             /\ now - journal[sid].createdAt > SESSION_TTL_MS
             => /\ tasks'[t].pc = "done"
                /\ tasks'[t].reply.type = "error"
                /\ tasks'[t].reply.error = "SessionNotFound"
                /\ journal'[sid].accepted = journal[sid].accepted]_vars
\* a request has been answered with the not-found error for a session that is
\* neither complete nor evicted, more than 10 minutes after the session was
\* created and no more than 10 minutes after a request for it was accepted
C34_Witness ==
    \E t \in TaskIds, sid \in 1..MaxSessions :
        /\ tasks[t].kind = "respond" /\ tasks[t].pc = "done" /\ tasks[t].sid = sid
        /\ tasks[t].reply.error = "SessionNotFound"
        /\ sid < nextId /\ ~journal[sid].complete /\ ~journal[sid].evicted
        /\ journal[sid].accepted >= 1
        /\ journal[sid].acceptedAt > journal[sid].createdAt
        /\ now - journal[sid].acceptedAt <= SESSION_TTL_MS
        /\ now - journal[sid].createdAt > SESSION_TTL_MS

-----------------------------------------------------------------------------
(* The inputs of a round (SpecExternal) *)

\* the call of runExternalRound by activation t is awaiting its round
inRound(task) == task.kind = "external" /\ task.pc = "round"

\* C35: the models of a round are all sent the same system and user message;
\* the messages are those of the round number, the topic, the instruction and
\* the prior transcript, in round 1 of the topic and the instruction alone; and
\* they stay as they were issued while the calls of the round settle
C35_RoundInputs ==
    [][\A t \in TaskIds :
          /\ inRound(tasks'[t]) =>
                /\ Len(tasks'[t].calls) = Len(tasks'[t].models)
                /\ \A i \in 1..Len(tasks'[t].calls) :
                      /\ tasks'[t].calls[i].label = tasks'[t].models[i]
                      /\ tasks'[t].calls[i].sys = tasks'[t].calls[1].sys
                      /\ tasks'[t].calls[i].user = tasks'[t].calls[1].user
                      /\ tasks'[t].calls[i].user.topic = tasks'[t].topic
                      /\ IF tasks'[t].round = 1
                         THEN /\ tasks'[t].calls[i].user.history = <<>>
                              /\ tasks'[t].calls[i].user.kind = "topic"
                              /\ tasks'[t].calls[i].sys.kind \in {"round1", "custom"}
                              /\ tasks'[t].calls[i].sys.custom = tasks'[t].systemPrompt
                         ELSE /\ tasks'[t].calls[i].user.history =
                                    buildHistoryContext(tasks'[t].allRounds)
                              /\ tasks'[t].calls[i].user.round = tasks'[t].round
                              /\ tasks'[t].calls[i].sys =
                                    roundSystem(tasks'[t].round, tasks'[t].totalRounds, TRUE)
          /\ inRound(tasks[t]) /\ inRound(tasks'[t]) =>
                /\ tasks'[t].allRounds = tasks[t].allRounds
                /\ \A i \in 1..Len(tasks[t].calls) :
                      /\ tasks'[t].calls[i].sys = tasks[t].calls[i].sys
                      /\ tasks'[t].calls[i].user = tasks[t].calls[i].user]_vars
\* round 1 was called with a prior transcript, and of its three calls one has
\* failed and one has answered while the third is in flight
C35_Witness ==
    \E t \in TaskIds :
        /\ inRound(tasks[t]) /\ tasks[t].round = 1 /\ tasks[t].allRounds # <<>>
        /\ Len(tasks[t].calls) = 3
        /\ tasks[t].calls[1].state = "pending"
        /\ tasks[t].calls[2].state = "rejected"
        /\ tasks[t].calls[3].state = "fulfilled"

-----------------------------------------------------------------------------
(* The synthesis step of runDebate against runSynthesis (SpecRounds) *)

\* C36: the synthesis step of runDebate does what runSynthesis does with the same
\* topic, transcript, synthesizer and participants: it issues the calls
\* runSynthesis would issue, in that order and with those messages, and yields
\* the text runSynthesis would yield, which is never an error, not even when the
\* synthesizer identifier does not resolve
C36_SynthesisEquivalent ==
    \A t \in TaskIds :
        tasks[t].kind = "debate" /\ Len(tasks[t].models) >= 2
        /\ allResolve(providers, tasks[t].models)
        => /\ tasks[t].pc = "done" => tasks[t].reply.type = "result"
           /\ tasks[t].pc = "synth" \/ tasks[t].reply.type = "result" =>
                 /\ isPrefix(tasks[t].called,
                             callOrder(providers, tasks[t].models, tasks[t].synth))
                 /\ \A i \in 1..Len(tasks[t].calls) :
                       /\ tasks[t].calls[i].label = tasks[t].called[Len(tasks[t].called)]
                       /\ tasks[t].calls[i].sys = synthesisSystem
                       /\ tasks[t].calls[i].user =
                             synthesisUserMessage(tasks[t].topic,
                                                  buildHistoryContext(tasks[t].allRounds))
           /\ tasks[t].reply.type = "result" =>
                 IF lastCallFulfilled(tasks[t])
                 THEN tasks[t].reply.synthesis = tasks[t].calls[1].value
                 ELSE /\ tasks[t].reply.synthesis = FallbackSentence
                      /\ tasks[t].called =
                            callOrder(providers, tasks[t].models, tasks[t].synth)

-----------------------------------------------------------------------------
(* A session removed while a request for it is in progress (Spec) *)

\* activation t is a brainstorm_respond request at an await whose session is no
\* longer in the store
orphaned(t) ==
    /\ tasks[t].kind = "respond" /\ tasks[t].pc \in {"round", "synth"}
    /\ ~inStore(store, tasks[t].sid)

\* C37: a brainstorm_respond request whose session was removed from the store
\* while it awaits its backend calls goes on as if it had not been: it returns
\* the results of its round, or the Debate Result, of that session; nothing it
\* does changes the store, its closing delete included; and a later request
\* with the id of a session that is not in the store is answered not-found
C37_RemovedWhileAwaiting ==
    [][\A t \in TaskIds :
          /\ orphaned(t) /\ tasks'[t] # tasks[t] =>
                /\ store' = store
                /\ tasks'[t].kind = "respond" /\ tasks'[t].sid = tasks[t].sid
                /\ tasks'[t].pc \in {"round", "synth", "done"}
                /\ tasks'[t].pc = "done" =>
                      /\ tasks'[t].reply.sid = tasks[t].sid
                      /\ IF tasks[t].pc = "round"
                         THEN /\ tasks'[t].reply.type = "round"
                              /\ tasks'[t].reply.round = tasks[t].round
                              /\ Len(tasks'[t].reply.responses) = Len(tasks[t].models)
                         ELSE /\ tasks'[t].reply.type = "result"
                              /\ tasks'[t].reply.rounds = heap[tasks[t].sid].rounds
                              /\ tasks'[t].reply.synthesis.len > 0
          /\ \A sid \in 1..MaxSessions :
                respondStep(t, sid) /\ ~inStore(store, sid) =>
                   /\ tasks'[t].pc = "done"
                   /\ tasks'[t].reply.error = "SessionNotFound"
                   /\ store' = store]_vars
\* the last request of a session has returned the Debate Result although a
\* create evicted the session while the request was in progress, and the
\* session that took its place is still in the store
C37_Witness ==
    \E t \in TaskIds, other \in 1..MaxSessions :
        /\ tasks[t].kind = "respond" /\ tasks[t].pc = "done"
        /\ tasks[t].reply.type = "result"
        /\ journal[tasks[t].sid].evicted
        /\ other # tasks[t].sid /\ inStore(store, other)

-----------------------------------------------------------------------------
(* The creation of a session (SpecProviders) *)

\* in this step an interactive brainstorm request arrives and is taken by slot t
brainstormStep(t) ==
    /\ free(tasks[t]) /\ tasks'[t] # tasks[t]
    /\ tasks'[t].kind = "brainstorm"

\* C38: a session is created only by an interactive brainstorm whose round 1
\* has settled, every call of it; a brainstorm one of whose identifiers does
\* not resolve is answered with the failure at once, and creates no session,
\* evicts none and leaves the store, and the sessions, as they are
C38_CreatedAfterRoundOne ==
    [][/\ nextId' # nextId \/ (\E id \in 1..MaxSessions : inStore(store', id) /\ ~inStore(store, id)) =>
            \E t \in TaskIds :
               /\ tasks[t].kind = "brainstorm" /\ tasks[t].pc = "round" /\ tasks[t].round = 1
               /\ \A i \in 1..Len(tasks[t].calls) : tasks[t].calls[i].state # "pending"
               /\ Len(tasks[t].calls) = Len(tasks[t].models)
               /\ tasks'[t].pc = "done" /\ tasks'[t].reply.type = "round"
               /\ tasks'[t].reply.sid = nextId /\ nextId' = nextId + 1
               /\ inStore(store', nextId)
       /\ \A t \in TaskIds :
            /\ brainstormStep(t)
            /\ \E i \in 1..Len(tasks'[t].models) : ~resolveModel(providers, tasks'[t].models[i]).ok
            => /\ tasks'[t].pc = "done" /\ tasks'[t].reply.type = "failed"
               /\ tasks'[t].reply.error \in {"UnknownProvider", "InvalidFormat"}
               /\ UNCHANGED <<store, nextId, heap, journal, clientCache>>]_vars
\* a brainstorm was answered with a resolution failure while the store held a
\* session that a create would have evicted
C38_Witness ==
    \E t \in TaskIds :
        /\ tasks[t].kind = "brainstorm" /\ tasks[t].pc = "done"
        /\ tasks[t].reply.type = "failed" /\ tasks[t].reply.error = "UnknownProvider"
        /\ Len(store) = StoreCapacity /\ nextId <= MaxSessions
        /\ \A id \in 1..(nextId - 1) : ~journal[id].evicted

-----------------------------------------------------------------------------
(* What an operation keyed by a session id leaves alone (Spec) *)

\* in this step the brainstorm_respond request of slot t, for session sid, arrives
\* or goes on after an await
respondActs(t, sid) ==
    \/ respondStep(t, sid)
    \/ tasks[t].kind = "respond" /\ ~free(tasks[t]) /\ tasks[t].sid = sid /\ tasks'[t] # tasks[t]

-----------------------------------------------------------------------------
(* The registry after start-up (SpecProviders) *)

\* C40: the registry only grows: every step leaves the entries it holds as they
\* are and in place, with one entry for a name; add_provider with a name that is
\* registered is answered with an error and adds nothing, and otherwise adds one
\* entry; so an identifier that resolves goes on resolving to the same Resolved
\* Model, the identifiers of a session in the store resolve, a round in
\* progress holds the Resolved Models that its identifiers resolve to, and no
\* brainstorm_respond request is answered with a resolution failure
C40_RegistryGrows ==
    [][/\ Len(providers') >= Len(providers)
       /\ \A i \in 1..Len(providers) : providers'[i] = providers[i]
       /\ \A i, j \in 1..Len(providers') : providers'[i].name = providers'[j].name => i = j
       /\ \A t \in TaskIds : free(tasks[t]) /\ tasks'[t] # tasks[t] /\ tasks'[t].kind = "add" =>
             IF tasks'[t].reply.type = "error"
             THEN tasks'[t].reply.error = "AlreadyExists" /\ providers' = providers
             ELSE /\ Len(providers') = Len(providers) + 1
                  /\ ~hasProvider(providers, providers'[Len(providers')].name)
       /\ \A identifier \in {IdOG, IdLM, IdDC, IdXY, <<"y", Colon, "y">>} :
             resolveModel(providers, identifier).ok =>
                resolveModel(providers', identifier) = resolveModel(providers, identifier)
       /\ \A sid \in 1..MaxSessions : inStore(store', sid) =>
             \A i \in 1..Len(heap'[sid].modelIdentifiers) :
                resolveModel(providers', heap'[sid].modelIdentifiers[i]).ok
       /\ \A t \in TaskIds : tasks'[t].pc = "round" =>
             \A i \in 1..Len(tasks'[t].models) :
                /\ tasks'[t].resolved[i].ok
                /\ tasks'[t].resolved[i] = resolveModel(providers', tasks'[t].models[i])
       /\ \A t \in TaskIds, sid \in 1..MaxSessions : respondStep(t, sid) /\ tasks'[t].pc = "done" =>
             tasks'[t].reply.type = "error"]_vars
\* add_provider was answered that the name is taken, after both other providers
\* were added, while the store holds a session with the provider of that name
\* that has had its second round
C40_Witness ==
    /\ tasks[1].kind = "add" /\ tasks[1].pc = "done"
    /\ tasks[1].reply.error = "AlreadyExists"
    /\ Len(providers) = Len(InitProviders) + 2
    /\ \E sid \in 1..MaxSessions :
          /\ inStore(store, sid)
          /\ heap[sid].currentRound >= 2
          /\ heap[sid].modelIdentifiers[1] = IdOG

====
